---- MODULE Spec2Model ----
(***************************************************************************)
(* Bootcamp management application: curriculum catalog (Course, Phase,     *)
(* Lesson), cohorts, student enrollments and per-lesson progress, as       *)
(* stored by curriculum/models.py and written by the admin console and     *)
(* the seed management commands.                                           *)
(*                                                                         *)
(* Tables are sets of records.  A nullable column is a set: {} is NULL and *)
(* {v} is the value v.  Time is an integer clock `now`; dates and          *)
(* date-times are both points of that clock.                               *)
(***************************************************************************)
EXTENDS Integers, FiniteSets, Sequences, TLC

VARIABLES
    now,          \* the clock read by timezone.now() / date.today()
    users,        \* table User (accounts)
    courses,      \* table Course
    phases,       \* table Phase (with its prerequisites M2M as a column)
    phaseTally,   \* history: per course, phases added minus phases removed
    lessons,      \* table Lesson
    cohorts,      \* table Cohort
    enrollments,  \* table StudentEnrollment
    progress,     \* table StudentProgress
    pc,           \* per request: where it stands and what it has read
    result        \* outcome of the last operation, as surfaced to its caller

vars == <<now, users, courses, phases, phaseTally, lessons, cohorts, enrollments, progress, pc, result>>

(***************************************************************************)
(* Bounds of the model.                                                    *)
(***************************************************************************)
MaxTime == 2

UserIds == {"u1", "u2", "u3"}
CourseIds == {"c1", "c2"}
PhaseIds == {"p1", "p2", "p3"}
LessonIds == {"l1", "l2"}
CohortIds == {"k1"}
Procs == {"r1", "r2"}

Times == 0..MaxTime

(***************************************************************************)
(* Program constants.                                                      *)
(***************************************************************************)
MinScore == 0
MaxScore == 100
MinDuration == 1
MaxDuration == 365

CohortStatusChoices == {"upcoming", "active", "completed", "cancelled"}
EnrollmentStatusChoices == {"pending", "active", "completed", "dropped", "suspended"}
EnrollmentStatusDefaultActive == "active"
EnrollmentStatusDefault == "pending"
SeedEnrollmentStatus == "active"

None == {}
Some(v) == {v}

(***************************************************************************)
(* User: the accounts                                                      *)
(***************************************************************************)
\* An email address is its local part and its domain.
StudentEmail(u) == [local |-> u, domain |-> "x.com"]

\* The students of seed_students: their names and phone number, the password
\* of the demo, role student, the other flags at their defaults.
SeededStudent(u) ==
    [id |-> u, email |-> StudentEmail(u), role |-> "student",
     is_staff |-> FALSE, is_superuser |-> FALSE,
     first_name |-> "John", last_name |-> "Doe", phone_number |-> "+254",
     password |-> "password123"]
SeededStudents == {SeededStudent(u) : u \in UserIds}

UserExists(u) == \E a \in users : a.id = u

\* seed_students: User.objects.get_or_create(email = ..., defaults = role
\* student ...)
SeedGetOrCreateUser(u) ==
    /\ ~UserExists(u)
    /\ IF \E a \in users : a.email = StudentEmail(u)
       THEN /\ result' = "exists"
            /\ UNCHANGED users
       ELSE /\ users' = users \cup {SeededStudent(u)}
            /\ result' = "created"
    /\ UNCHANGED <<now, courses, phases, phaseTally, lessons, cohorts, enrollments, progress, pc>>

\* The number of phases each course starts with.
TallyOf(tbl) == [c \in CourseIds |-> Cardinality({ph \in tbl : ph.course = c})]

(***************************************************************************)
(* The clock.                                                              *)
(***************************************************************************)
Tick ==
    /\ now < MaxTime
    /\ now' = now + 1
    /\ UNCHANGED <<users, courses, phases, phaseTally, lessons, cohorts, enrollments, progress, pc, result>>

(***************************************************************************)
(* StudentProgress                                                         *)
(***************************************************************************)

ProgressOf(u, l) == {r \in progress : r.user = u /\ r.lesson = l}

\* validators=[MinValueValidator(0), MaxValueValidator(100)] on a nullable float
ScoreValidNoMax(score) == \A v \in score : v >= MinScore
ScoreValid(score) == \A v \in score : v >= MinScore /\ v <= MaxScore

\* StudentProgress.save(): stamp the completion date when completed and unset,
\* then Model.save(), which refreshes updated_at (auto_now).
StudentProgressSaveAlwaysStamp(row) ==
    [row EXCEPT !.completion_date = IF row.is_completed THEN Some(now) ELSE @,
                !.updated_at = now]
StudentProgressSaveNoStamp(row) == [row EXCEPT !.updated_at = now]
StudentProgressSave(row) ==
    [row EXCEPT !.completion_date =
                    IF row.is_completed /\ row.completion_date = None
                    THEN Some(now) ELSE @,
                !.updated_at = now]

\* The admin add form of StudentProgress: field validators and the
\* unique_together check of the model form, then save().
AdminAddProgress(u, l, completed, cd, score) ==
    /\ UserExists(u)
    /\ IF ~ScoreValid(score)
       THEN /\ result' = "ValidationError"
            /\ UNCHANGED progress
       ELSE IF ProgressOf(u, l) # {}
       THEN /\ result' = "DuplicateKey"
            /\ UNCHANGED progress
       ELSE /\ progress' = progress \cup
                  {StudentProgressSave(
                      [user |-> u, lesson |-> l, is_completed |-> completed,
                       completion_date |-> cd, knowledge_check_score |-> score,
                       updated_at |-> now])}
            /\ result' = "saved"
    /\ UNCHANGED <<now, users, courses, phases, phaseTally, lessons, cohorts, enrollments, pc>>

\* The admin change form of StudentProgress on an existing row.
AdminChangeProgressDropping(row, completed, cd, score) ==
    /\ row \in progress
    /\ IF ~ScoreValid(score)
       THEN /\ result' = "ValidationError"
            /\ UNCHANGED progress
       ELSE /\ progress' = (progress \ {row}) \cup
                  (IF completed
                   THEN {StudentProgressSave(
                            [row EXCEPT !.is_completed = completed,
                                        !.completion_date = cd,
                                        !.knowledge_check_score = score])}
                   ELSE {})
            /\ result' = "saved"
    /\ UNCHANGED <<now, users, courses, phases, phaseTally, lessons, cohorts, enrollments, pc>>
AdminChangeProgress(row, completed, cd, score) ==
    /\ row \in progress
    /\ IF ~ScoreValid(score)
       THEN /\ result' = "ValidationError"
            /\ UNCHANGED progress
       ELSE /\ progress' = (progress \ {row}) \cup
                  {StudentProgressSave(
                      [row EXCEPT !.is_completed = completed,
                                  !.completion_date = cd,
                                  !.knowledge_check_score = score])}
            /\ result' = "saved"
    /\ UNCHANGED <<now, users, courses, phases, phaseTally, lessons, cohorts, enrollments, pc>>

\* Deleting one progress row in the admin.
AdminDeleteProgress(row) ==
    /\ row \in progress
    /\ progress' = progress \ {row}
    /\ result' = "deleted"
    /\ UNCHANGED <<now, users, courses, phases, phaseTally, lessons, cohorts, enrollments, pc>>

\* record_progress(account, lesson, completed, score): create the row when
\* there is none, set completed and the score, leave the completion date to
\* save().
record_progress_restamp(u, l, completed, score) ==
    IF ProgressOf(u, l) = {}
    THEN AdminAddProgress(u, l, completed, None, score)
    ELSE \E row \in ProgressOf(u, l) :
            AdminChangeProgress(row, completed, None, score)
record_progress(u, l, completed, score) ==
    IF ProgressOf(u, l) = {}
    THEN AdminAddProgress(u, l, completed, None, score)
    ELSE \E row \in ProgressOf(u, l) :
            AdminChangeProgress(row, completed, row.completion_date, score)

LessonRow(l) == CHOOSE r \in lessons : r.id = l

\* random.randint(1, 30) days before now and random.uniform(70, 95), a few of each
SeedDaysAgo == {1, 2}
SeedScores == {70, 95}

\* set_student_progress: StudentProgress.objects.get_or_create(user, lesson,
\* defaults = completed, a completion date in the past, a score when the
\* lesson has a knowledge check).  An existing row is returned untouched.
SeedGetOrCreateProgress(u, l, daysAgo, rnd) ==
    /\ UserExists(u)
    /\ \E r \in lessons : r.id = l
    /\ IF ProgressOf(u, l) # {}
       THEN /\ result' = "exists"
            /\ UNCHANGED progress
       ELSE /\ progress' = progress \cup
                  {StudentProgressSave(
                      [user |-> u, lesson |-> l, is_completed |-> TRUE,
                       completion_date |-> Some(now - daysAgo),
                       knowledge_check_score |->
                           IF LessonRow(l).has_knowledge_check THEN Some(rnd) ELSE None,
                       updated_at |-> now])}
            /\ result' = "created"
    /\ UNCHANGED <<now, users, courses, phases, phaseTally, lessons, cohorts, enrollments, pc>>

\* seed_students --clear: every progress row, every enrollment and every
\* account with role student is deleted.
SeedStudentsClear ==
    /\ progress' = {}
    /\ enrollments' = {}
    /\ users' = {a \in users : a.role # "student"}
    /\ result' = "cleared"
    /\ UNCHANGED <<now, courses, phases, phaseTally, lessons, cohorts, pc>>

(***************************************************************************)
(* Specification of progress recording: a seeded catalog of one course,    *)
(* one phase and two lessons; progress rows are written by                 *)
(* record_progress and by the seed command.                                *)
(***************************************************************************)
ProgressUsers == {"u1"}
ScoreInputs == {None, Some(-1), Some(100), Some(101), Some(150)}

NoPost == [email |-> [local |-> "", domain |-> ""], role |-> "", is_staff |-> FALSE,
           is_superuser |-> FALSE, first_name |-> "", last_name |-> "",
           phone_number |-> "", password |-> ""]
NoRequest == [at |-> "idle", user |-> "", cohort |-> "", accepting |-> FALSE, full |-> FALSE,
              post |-> NoPost, step |-> 0]
IdlePc == [p \in Procs |-> NoRequest]

InitProgress ==
    /\ now = 0
    /\ courses = {[id |-> "c1", slug |-> "s1", price_per_phase |-> 3000]}
    /\ phases = {[id |-> "p1", course |-> "c1", phase_number |-> 1,
                  duration_days |-> 30, is_active |-> TRUE, prerequisites |-> {}]}
    /\ lessons = {[id |-> "l1", phase |-> "p1", day_number |-> 1,
                   is_published |-> TRUE, has_knowledge_check |-> FALSE],
                  [id |-> "l2", phase |-> "p1", day_number |-> 3,
                   is_published |-> TRUE, has_knowledge_check |-> TRUE]}
    /\ cohorts = {}
    /\ enrollments = {}
    /\ progress = {}
    /\ phaseTally = TallyOf(phases)
    /\ users = SeededStudents
    /\ pc = IdlePc
    /\ result = "none"

RecordProgressStep ==
    \E u \in ProgressUsers, l \in LessonIds, completed \in BOOLEAN, score \in ScoreInputs :
        record_progress(u, l, completed, score)

SeedProgressStep ==
    \E u \in ProgressUsers, l \in LessonIds, d \in SeedDaysAgo, rnd \in SeedScores :
        SeedGetOrCreateProgress(u, l, d, rnd)

NextProgress ==
    \/ Tick
    \/ \E u \in ProgressUsers : SeedGetOrCreateUser(u)
    \/ RecordProgressStep
    \/ SeedProgressStep
    \/ SeedStudentsClear

SpecProgress == InitProgress /\ [][NextProgress]_vars

C2_OutOfRangeScoreRejected ==
    [][\A s \in {x \in ScoreInputs : \E v \in x : v < 0 \/ v > 100} :
          \A u \in ProgressUsers, l \in LessonIds, c \in BOOLEAN :
              record_progress(u, l, c, s) =>
                  /\ progress' = progress
                  /\ result' = "ValidationError"
      ]_vars

\* C2 witness: a rejected call in a state that holds rows it could have changed.
C2_Witness ==
    /\ result = "ValidationError"
    /\ progress # {}

\* What record_progress stores of a row besides the bookkeeping column
\* updated_at.
Recorded(r) == [user |-> r.user, lesson |-> r.lesson, is_completed |-> r.is_completed,
                completion_date |-> r.completion_date,
                knowledge_check_score |-> r.knowledge_check_score]

\* C11: record_progress is idempotent: a call whose completed value and valid
\* score are those the row already holds (a repeat of the call that stored
\* them, at the same or a later time) leaves the same completed flag, the same
\* completion timestamp and the same score, and still exactly one row for the
\* (account, lesson) pair.
C11_RecordProgressIdempotent ==
    [][\A r \in progress :
          ( /\ ScoreValid(r.knowledge_check_score)
            /\ record_progress(r.user, r.lesson, r.is_completed, r.knowledge_check_score) )
          => /\ result' = "saved"
             /\ {Recorded(q) : q \in progress'} = {Recorded(q) : q \in progress}
             /\ Cardinality({q \in progress' : q.user = r.user /\ q.lesson = r.lesson}) = 1
      ]_vars

\* C11 witness: a completed row stamped at time 0 and saved again by a later
\* call with its score 100, the stamp still 0.
C11_Witness ==
    /\ result = "saved"
    /\ \E r \in progress :
          /\ r.is_completed
          /\ r.completion_date = Some(0)
          /\ r.knowledge_check_score = Some(100)
          /\ r.updated_at = MaxTime


(***************************************************************************)
(* Specification of completion: on the same seeded catalog, progress rows  *)
(* are saved by record_progress, by the seed command's get_or_create and   *)
(* by the admin forms, which carry the completion date as a field.         *)
(***************************************************************************)

NextCompletion ==
    \/ Tick
    \/ \E u \in ProgressUsers, l \in LessonIds, completed \in BOOLEAN :
          record_progress(u, l, completed, None)
    \/ \E u \in ProgressUsers, l \in LessonIds, d \in SeedDaysAgo :
          SeedGetOrCreateProgress(u, l, d, 70)
    \/ \E u \in ProgressUsers, l \in LessonIds, completed \in BOOLEAN,
          cd \in {None, Some(0)} :
          AdminAddProgress(u, l, completed, cd, None)
    \/ \E row \in progress, completed \in BOOLEAN, cd \in {None, Some(0)} :
          AdminChangeProgress(row, completed, cd, row.knowledge_check_score)

SpecCompletion == InitProgress /\ [][NextCompletion]_vars

\* C26: in every state reached through StudentProgress.save (rows created by
\* get_or_create included) a Progress row with is_completed = true has a
\* completion_date; a row saved with is_completed = false keeps the
\* completion_date it had, so the converse does not hold.
C26_CompletedHasDate ==
    /\ [](\A r \in progress : r.is_completed => r.completion_date # None)
    /\ [][\A r \in progress :
            record_progress(r.user, r.lesson, FALSE, None) =>
                \E q \in progress' :
                    /\ q.user = r.user /\ q.lesson = r.lesson
                    /\ ~q.is_completed
                    /\ q.completion_date = r.completion_date
       ]_vars

\* C26 witness: a row last saved as not completed still carries the date of
\* its earlier completion, next to a completed row with its own date.
C26_Witness ==
    /\ result = "saved"
    /\ \E r, q \in progress :
          /\ ~r.is_completed /\ r.completion_date = Some(1) /\ r.updated_at = MaxTime
          /\ q.is_completed /\ q.completion_date # None /\ q.lesson # r.lesson

(***************************************************************************)
(* Cohort                                                                  *)
(***************************************************************************)

\* Cohort.current_students_count: self.enrollments.filter(status='active').count()
current_students_count(c) ==
    Cardinality({e \in enrollments : e.cohort = c.id /\ e.status = "active"})

\* Cohort.is_full
is_full_strict(c) == current_students_count(c) > c.max_students
is_full(c) == current_students_count(c) >= c.max_students

\* Cohort.is_accepting_enrollments, read at the clock's date
is_accepting_enrollments(c) ==
    /\ c.status = "upcoming"
    /\ ~is_full(c)
    /\ c.start_date > now

\* CohortAdmin add form: a new cohort of an existing course.
AdminAddCohort(k, course, status, maxStudents, startDate) ==
    /\ \A c \in cohorts : c.id # k
    /\ \E co \in courses : co.id = course
    /\ cohorts' = cohorts \cup
          {[id |-> k, course |-> course, status |-> status,
            max_students |-> maxStudents, start_date |-> startDate]}
    /\ result' = "saved"
    /\ UNCHANGED <<now, users, courses, phases, phaseTally, lessons, enrollments, progress, pc>>

\* CohortAdmin change form: status, capacity and start date are overwritten.
AdminChangeCohort(c, status, maxStudents, startDate) ==
    /\ c \in cohorts
    /\ cohorts' = (cohorts \ {c}) \cup
          {[c EXCEPT !.status = status, !.max_students = maxStudents,
                     !.start_date = startDate]}
    /\ result' = "saved"
    /\ UNCHANGED <<now, users, courses, phases, phaseTally, lessons, enrollments, progress, pc>>

\* Deleting a cohort in the admin: on_delete=CASCADE removes its enrollments.
AdminDeleteCohort(c) ==
    /\ c \in cohorts
    /\ cohorts' = cohorts \ {c}
    /\ enrollments' = {e \in enrollments : e.cohort # c.id}
    /\ result' = "deleted"
    /\ UNCHANGED <<now, users, courses, phases, phaseTally, lessons, progress, pc>>

(***************************************************************************)
(* StudentEnrollment                                                       *)
(***************************************************************************)

EnrollmentOf(u, k) == {e \in enrollments : e.user = u /\ e.cohort = k}

\* unique_together = ['user', 'cohort'], as the model form and the database
\* enforce it
UniqueTogetherOff(u, k) == TRUE
UniqueTogetherFree(u, k) == EnrollmentOf(u, k) = {}

\* Model.save() of an enrollment: enrollment_date is auto_now_add, written on
\* insert only.
EnrollmentSaveAutoNow(row, adding) == [row EXCEPT !.enrollment_date = now]
EnrollmentSave(row, adding) ==
    IF adding THEN [row EXCEPT !.enrollment_date = now] ELSE row

\* status = models.CharField(choices=STATUS_CHOICES, default='pending'): the
\* value passed by the creator, the default when none is passed.
StatusOrDefault(status) ==
    IF status = None THEN EnrollmentStatusDefault ELSE CHOOSE v \in status : TRUE

NewEnrollment(u, k, status) ==
    EnrollmentSave([user |-> u, cohort |-> k, status |-> StatusOrDefault(status),
                    enrollment_date |-> now,
                    current_phase |-> None, current_lesson |-> None], TRUE)

\* seed_students: StudentEnrollment.objects.get_or_create(user, cohort,
\* defaults={'status': 'active'}) - first the lookup ...
SeedEnrollGet(p, u, k) ==
    /\ pc[p].at \in {"idle", "posted"}
    /\ UserExists(u)
    /\ \E c \in cohorts : c.id = k
    /\ IF EnrollmentOf(u, k) # {}
       THEN /\ pc' = [pc EXCEPT ![p] = NoRequest]
            /\ result' = "exists"
       ELSE /\ pc' = [pc EXCEPT ![p] = [NoRequest EXCEPT !.at = "create",
                                                         !.user = u, !.cohort = k]]
            /\ result' = "DoesNotExist"
    /\ UNCHANGED <<now, users, courses, phases, phaseTally, lessons, cohorts, enrollments, progress>>

\* ... then the insert; an IntegrityError (the pair was inserted meanwhile, or
\* the cohort is gone) makes get_or_create look the row up again.
SeedEnrollCreate(p) ==
    /\ pc[p].at = "create"
    /\ LET u == pc[p].user
           k == pc[p].cohort
       IN  IF (\E c \in cohorts : c.id = k) /\ UniqueTogetherFree(u, k)
           THEN /\ enrollments' = enrollments \cup {NewEnrollment(u, k, Some(SeedEnrollmentStatus))}
                /\ result' = "created"
           ELSE /\ UNCHANGED enrollments
                /\ result' = IF EnrollmentOf(u, k) # {} THEN "exists" ELSE "IntegrityError"
    /\ pc' = [pc EXCEPT ![p] = NoRequest]
    /\ UNCHANGED <<now, users, courses, phases, phaseTally, lessons, cohorts, progress>>

\* StudentEnrollmentAdmin add form: validate_unique, then save().
AdminAddEnrollment(u, k, status) ==
    /\ UserExists(u)
    /\ \E c \in cohorts : c.id = k
    /\ IF UniqueTogetherFree(u, k)
       THEN /\ enrollments' = enrollments \cup {NewEnrollment(u, k, status)}
            /\ result' = "saved"
       ELSE /\ UNCHANGED enrollments
            /\ result' = "AlreadyEnrolled"
    /\ UNCHANGED <<now, users, courses, phases, phaseTally, lessons, cohorts, progress, pc>>

\* CohortAdmin change page, GET: renders current_students_count and
\* is_accepting_enrollments (read-only fields) with the enrollment inline.
AdminCohortView(p, c) ==
    /\ pc[p].at \in {"idle", "posted"}
    /\ c \in cohorts
    /\ pc' = [pc EXCEPT ![p] = [NoRequest EXCEPT !.at = "viewed", !.cohort = c.id,
                                                  !.accepting = is_accepting_enrollments(c),
                                                  !.full = is_full(c)]]
    /\ result' = "rendered"
    /\ UNCHANGED <<now, users, courses, phases, phaseTally, lessons, cohorts, enrollments, progress>>

\* CohortAdmin change page, POST of one new row of StudentEnrollmentInline
\* with a capacity check at the insert (what the code does not do).
AdminCohortPostEnrollmentChecked(p, u, status) ==
    /\ pc[p].at = "viewed"
    /\ UserExists(u)
    /\ LET k == pc[p].cohort
       IN  IF ~\E c \in cohorts : c.id = k
           THEN /\ UNCHANGED enrollments
                /\ result' = "InvalidReference"
           ELSE IF ~UniqueTogetherFree(u, k)
           THEN /\ UNCHANGED enrollments
                /\ result' = "AlreadyEnrolled"
           ELSE IF \E c \in cohorts : c.id = k /\ is_full(c)
           THEN /\ UNCHANGED enrollments
                /\ result' = "CapacityExceeded"
           ELSE /\ enrollments' = enrollments \cup {NewEnrollment(u, k, status)}
                /\ result' = "saved"
    /\ pc' = [pc EXCEPT ![p].at = "posted"]
    /\ UNCHANGED <<now, users, courses, phases, phaseTally, lessons, cohorts, progress>>

\* CohortAdmin change page, POST of one new row of StudentEnrollmentInline.
AdminCohortPostEnrollment(p, u, status) ==
    /\ pc[p].at = "viewed"
    /\ UserExists(u)
    /\ LET k == pc[p].cohort
       IN  IF ~\E c \in cohorts : c.id = k
           THEN /\ UNCHANGED enrollments
                /\ result' = "InvalidReference"
           ELSE IF ~UniqueTogetherFree(u, k)
           THEN /\ UNCHANGED enrollments
                /\ result' = "AlreadyEnrolled"
           ELSE /\ enrollments' = enrollments \cup {NewEnrollment(u, k, status)}
                /\ result' = "saved"
    /\ pc' = [pc EXCEPT ![p].at = "posted"]
    /\ UNCHANGED <<now, users, courses, phases, phaseTally, lessons, cohorts, progress>>

\* set_status: StudentEnrollmentAdmin change form, field status.
set_status_from_open(e, status) ==
    /\ e \in enrollments
    /\ e.status \notin {"completed", "dropped"}
    /\ enrollments' = (enrollments \ {e}) \cup {EnrollmentSave([e EXCEPT !.status = status], FALSE)}
    /\ result' = "saved"
    /\ UNCHANGED <<now, users, courses, phases, phaseTally, lessons, cohorts, progress, pc>>
set_status(e, status) ==
    /\ e \in enrollments
    /\ enrollments' = (enrollments \ {e}) \cup {EnrollmentSave([e EXCEPT !.status = status], FALSE)}
    /\ result' = "saved"
    /\ UNCHANGED <<now, users, courses, phases, phaseTally, lessons, cohorts, progress, pc>>

\* advance: current_phase and current_lesson are overwritten and the row saved
\* (set_student_progress, and the admin change form).
advance_checked(e, phase, lesson) ==
    /\ e \in enrollments
    /\ \A x \in phase : \E ph \in phases : ph.id = x
    /\ \A x \in lesson : \E ls \in lessons : ls.id = x /\ Some(ls.phase) = phase
    /\ enrollments' = (enrollments \ {e}) \cup
          {EnrollmentSave([e EXCEPT !.current_phase = phase, !.current_lesson = lesson], FALSE)}
    /\ result' = "saved"
    /\ UNCHANGED <<now, users, courses, phases, phaseTally, lessons, cohorts, progress, pc>>
advance(e, phase, lesson) ==
    /\ e \in enrollments
    /\ \A x \in phase : \E ph \in phases : ph.id = x
    /\ \A x \in lesson : \E ls \in lessons : ls.id = x
    /\ enrollments' = (enrollments \ {e}) \cup
          {EnrollmentSave([e EXCEPT !.current_phase = phase, !.current_lesson = lesson], FALSE)}
    /\ result' = "saved"
    /\ UNCHANGED <<now, users, courses, phases, phaseTally, lessons, cohorts, progress, pc>>

\* Deleting one enrollment in the admin.
AdminDeleteEnrollment(e) ==
    /\ e \in enrollments
    /\ enrollments' = enrollments \ {e}
    /\ result' = "deleted"
    /\ UNCHANGED <<now, users, courses, phases, phaseTally, lessons, cohorts, progress, pc>>

(***************************************************************************)
(* Specification of enrollment against cohort capacity: one course; the    *)
(* admin creates, edits and deletes the cohort and enrollments, the seed   *)
(* command enrolls, one request at a time.                                 *)
(***************************************************************************)
EnrollUsers == {"u1", "u2"}
MaxStudentsInputs == {1, 2}
StartDateInputs == {1, 2}
AddStatusInputs == {None}
SetStatusInputs == {"pending", "active", "dropped"}

InitEnroll ==
    /\ now = 0
    /\ courses = {[id |-> "c1", slug |-> "s1", price_per_phase |-> 3000]}
    /\ phases = {}
    /\ lessons = {}
    /\ cohorts = {}
    /\ enrollments = {}
    /\ progress = {}
    /\ phaseTally = TallyOf(phases)
    /\ users = SeededStudents
    /\ pc = IdlePc
    /\ result = "none"

AdminAddCohortStep ==
    \E k \in CohortIds, co \in courses, st \in CohortStatusChoices,
       m \in MaxStudentsInputs, d \in StartDateInputs :
        AdminAddCohort(k, co.id, st, m, d)

AdminChangeCohortStep ==
    \E c \in cohorts, st \in CohortStatusChoices,
       m \in MaxStudentsInputs, d \in StartDateInputs :
        AdminChangeCohort(c, st, m, d)

AdminDeleteCohortStep == \E c \in cohorts : AdminDeleteCohort(c)

SeedEnrollGetStep(P) == \E p \in P, u \in EnrollUsers, k \in CohortIds : SeedEnrollGet(p, u, k)

SeedEnrollCreateStep(P) == \E p \in P : SeedEnrollCreate(p)

AdminAddEnrollmentStep ==
    \E u \in EnrollUsers, k \in CohortIds, st \in AddStatusInputs : AdminAddEnrollment(u, k, st)

AdminCohortViewStep(P) == \E p \in P, c \in cohorts : AdminCohortView(p, c)

AdminCohortPostEnrollmentStep(P, S) ==
    \E p \in P, u \in EnrollUsers, st \in S : AdminCohortPostEnrollment(p, u, st)

SetStatusStep == \E e \in enrollments, st \in SetStatusInputs : set_status(e, st)

AdminDeleteEnrollmentStep == \E e \in enrollments : AdminDeleteEnrollment(e)

NextEnroll ==
    \/ Tick
    \/ AdminAddCohortStep
    \/ AdminChangeCohortStep
    \/ AdminDeleteCohortStep
    \/ SeedEnrollGetStep({"r1"})
    \/ SeedEnrollCreateStep({"r1"})
    \/ AdminAddEnrollmentStep
    \/ AdminCohortViewStep({"r1"})
    \/ AdminCohortPostEnrollmentStep({"r1"}, AddStatusInputs)
    \/ SetStatusStep
    \/ AdminDeleteEnrollmentStep

SpecEnroll == InitEnroll /\ [][NextEnroll]_vars

(***************************************************************************)
(* Properties of enrollment against capacity.                              *)
(***************************************************************************)
EnrolledUsers(tbl, k) == {e.user : e \in {x \in tbl : x.cohort = k}}

NewEnrollments == {e \in enrollments' : e.user \notin EnrolledUsers(enrollments, e.cohort)}

\* C3: an enroll into a cohort whose active enrollment count equals
\* max_students is rejected (CapacityExceeded) and creates no Enrollment row.
C3_FullCohortCreatesNoEnrollment ==
    [][\A c \in cohorts :
          current_students_count(c) = c.max_students =>
              /\ EnrolledUsers(enrollments', c.id) \subseteq EnrolledUsers(enrollments, c.id)
      ]_vars

\* C6: what is_accepting_enrollments yields for a cohort at a date is true
\* exactly when status = upcoming, the number of its enrollments with status
\* active is strictly below max_students, and start_date is strictly after
\* that date; the evaluation changes no stored row.
C6_AcceptsEnrollmentIff ==
    [][\A p \in Procs :
          (pc'[p].at = "viewed" /\ pc'[p] # pc[p]) =>
              /\ UNCHANGED <<now, users, courses, phases, phaseTally, lessons, cohorts, enrollments, progress>>
              /\ \E c \in cohorts :
                    /\ c.id = pc'[p].cohort
                    /\ pc'[p].accepting <=>
                          ( /\ c.status = "upcoming"
                            /\ Cardinality({e \in enrollments :
                                   e.cohort = c.id /\ e.status = "active"}) < c.max_students
                            /\ c.start_date > now )
      ]_vars

\* C6 witness: the predicate was just evaluated on an upcoming cohort with a
\* future start date and answered false, the active count having reached
\* max_students.
C6_Witness ==
    /\ result = "rendered"
    /\ \E p \in Procs, c \in cohorts :
          /\ pc[p].at = "viewed" /\ pc[p].cohort = c.id /\ ~pc[p].accepting
          /\ c.status = "upcoming" /\ c.start_date > now
          /\ current_students_count(c) = c.max_students

\* C9 as stated: every Enrollment row has status pending right after the
\* operation that created it, whichever code path created it.
C9_NewEnrollmentIsPending ==
    [][\A e \in NewEnrollments : e.status = "pending"]_vars

\* C9 amended: a row created by seed_students has status active right after
\* its creation; a row created in the admin with the status field left at its
\* default has status pending.
C9_NewEnrollmentStatusAsPassed ==
    [][ /\ result' = "created" => \A e \in NewEnrollments : e.status = "active"
        /\ \A u \in EnrollUsers, k \in CohortIds, st \in AddStatusInputs :
              (AdminAddEnrollment(u, k, st) /\ result' = "saved") =>
                  /\ NewEnrollments # {}
                  /\ \A e \in NewEnrollments :
                        e.status = IF st = None THEN "pending" ELSE CHOOSE v \in st : TRUE
      ]_vars

\* C9 witness: a cohort holding a row the seed command created (active) next
\* to one the admin added with the default status (pending).
C9_Witness ==
    \E e1, e2 \in enrollments :
        /\ e1.cohort = e2.cohort /\ e1.user # e2.user
        /\ e1.status = "active" /\ e2.status = "pending"
        /\ result = "created"


\* C21: a cohort's status changes only along upcoming -> active,
\* active -> completed, upcoming -> cancelled and active -> cancelled
\* (completed and cancelled are never left), and only in an administrative
\* edit of the cohort.
C21_CohortStatusLifecycle ==
    [][\A c \in cohorts : \A d \in cohorts' :
          (d.id = c.id /\ d.status # c.status) =>
              /\ <<c.status, d.status>> \in
                    {<<"upcoming", "active">>, <<"active", "completed">>,
                     <<"upcoming", "cancelled">>, <<"active", "cancelled">>}
              /\ \E st \in CohortStatusChoices, m \in MaxStudentsInputs,
                    sd \in StartDateInputs : AdminChangeCohort(c, st, m, sd)]_vars

(***************************************************************************)
(* Specification of concurrent enrollment: two requests run against one    *)
(* upcoming cohort, each either the seed command's get_or_create or an     *)
(* administrator's cohort page (GET, then POST of an inline enrollment).   *)
(***************************************************************************)
RaceStatusInputs == {None, Some("active")}

InitRace ==
    /\ now = 0
    /\ courses = {[id |-> "c1", slug |-> "s1", price_per_phase |-> 3000]}
    /\ phases = {}
    /\ lessons = {}
    /\ \E m \in MaxStudentsInputs :
          cohorts = {[id |-> "k1", course |-> "c1", status |-> "upcoming",
                      max_students |-> m, start_date |-> MaxTime + 1]}
    /\ enrollments = {}
    /\ progress = {}
    /\ phaseTally = TallyOf(phases)
    /\ users = SeededStudents
    /\ pc = IdlePc
    /\ result = "none"

NextRace ==
    \/ Tick
    \/ SeedEnrollGetStep(Procs)
    \/ SeedEnrollCreateStep(Procs)
    \/ AdminCohortViewStep(Procs)
    \/ AdminCohortPostEnrollmentStep(Procs, RaceStatusInputs)
    \/ AdminDeleteEnrollmentStep

SpecRace == InitRace /\ [][NextRace]_vars

\* C5: the insert of an enrollment is not guarded by capacity.  A request that
\* read "not full" on the cohort page and then posts an enrollment for an
\* account not yet enrolled inserts the row whatever the count has become in
\* the meantime; so two such requests against a cohort one below capacity both
\* insert, and count <= max_students is not an invariant (C5_Witness).
C5_InsertNotGuardedByCapacity ==
    [][\A p \in Procs :
          ( /\ pc[p].at = "viewed" /\ ~pc[p].full /\ pc'[p].at = "posted"
            /\ result' \notin {"AlreadyEnrolled", "InvalidReference"} )
          => /\ result' = "saved"
             /\ Cardinality(enrollments') = Cardinality(enrollments) + 1
      ]_vars

\* C5 witness: both requests read "not full", both have posted, and the cohort
\* counts more active enrollments than max_students.
C5_Witness ==
    \E c \in cohorts :
        /\ \A p \in Procs : pc[p].at = "posted" /\ pc[p].cohort = c.id /\ ~pc[p].full
        /\ Cardinality({e \in enrollments : e.cohort = c.id}) = c.max_students + 1
        /\ current_students_count(c) > c.max_students

ScenarioUsers == {"u1", "u2", "u3"}

InitScenario ==
    /\ now = 0
    /\ courses = {[id |-> "c1", slug |-> "s1", price_per_phase |-> 3000]}
    /\ phases = {}
    /\ lessons = {}
    /\ \E m \in MaxStudentsInputs, d \in StartDateInputs :
          cohorts = {[id |-> "k1", course |-> "c1", status |-> "upcoming",
                      max_students |-> m, start_date |-> d]}
    /\ enrollments = {}
    /\ progress = {}
    /\ phaseTally = TallyOf(phases)
    /\ users = SeededStudents
    /\ pc = IdlePc
    /\ result = "none"

NextScenario ==
    \/ \E u \in ScenarioUsers, k \in CohortIds : SeedEnrollGet("r1", u, k)
    \/ SeedEnrollCreate("r1")

SpecScenario == InitScenario /\ [][NextScenario]_vars

\* C4: from an upcoming cohort with a future start date, max_students = N and
\* no enrollments, once N enroll calls by distinct accounts have succeeded the
\* next enroll call fails: the cohort never holds more than N enrollments.
C4_EnrollBeyondCapacityFails ==
    \A c \in cohorts :
        Cardinality({e \in enrollments : e.cohort = c.id}) <= c.max_students

(***************************************************************************)
(* Specification of the enrollment lifecycle: a seeded course with two     *)
(* phases, one lesson and one cohort; enrollments are created, their       *)
(* status set, their current phase and lesson advanced, and deleted.       *)
(***************************************************************************)
PhaseInputs == {None} \cup {Some(ph.id) : ph \in phases}
LessonInputs == {None} \cup {Some(ls.id) : ls \in lessons}

InitLifecycle ==
    /\ now = 0
    /\ courses = {[id |-> "c1", slug |-> "s1", price_per_phase |-> 3000]}
    /\ phases = {[id |-> "p1", course |-> "c1", phase_number |-> 1,
                  duration_days |-> 30, is_active |-> TRUE, prerequisites |-> {}],
                 [id |-> "p2", course |-> "c1", phase_number |-> 2,
                  duration_days |-> 30, is_active |-> TRUE, prerequisites |-> {"p1"}]}
    /\ lessons = {[id |-> "l1", phase |-> "p1", day_number |-> 1,
                   is_published |-> TRUE, has_knowledge_check |-> FALSE]}
    /\ cohorts = {[id |-> "k1", course |-> "c1", status |-> "upcoming",
                   max_students |-> 2, start_date |-> MaxTime + 1]}
    /\ enrollments = {}
    /\ progress = {}
    /\ phaseTally = TallyOf(phases)
    /\ users = SeededStudents
    /\ pc = IdlePc
    /\ result = "none"

SetAnyStatusStep ==
    \E e \in enrollments, st \in EnrollmentStatusChoices : set_status(e, st)

AdvanceStep ==
    \E e \in enrollments, ph \in PhaseInputs, ls \in LessonInputs : advance(e, ph, ls)

NextLifecycle ==
    \/ Tick
    \/ SeedEnrollGetStep({"r1"})
    \/ SeedEnrollCreateStep({"r1"})
    \/ AdminAddEnrollmentStep
    \/ SetAnyStatusStep
    \/ AdvanceStep
    \/ AdminDeleteEnrollmentStep

SpecLifecycle == InitLifecycle /\ [][NextLifecycle]_vars

\* C10: enrollment_date is the time at which the row was created, and no later
\* operation on the enrollment (advance, set_status, any save) changes it.
C10_EnrollmentDateImmutable ==
    [][ /\ \A e \in NewEnrollments : e.enrollment_date = now
        /\ \A e \in enrollments, f \in enrollments' :
              (e.user = f.user /\ e.cohort = f.cohort) =>
                  f.enrollment_date = e.enrollment_date
      ]_vars

\* C10 witness: the last operation saved a row (its status or its pointers)
\* at a time later than the enrollment date that every row still carries.
C10_Witness ==
    /\ result = "saved"
    /\ enrollments # {}
    /\ \A e \in enrollments :
          /\ e.enrollment_date < now
          /\ e.current_phase # None
          /\ e.status = "suspended"


\* C23: set_status(enrollment, new_status) succeeds for every pair of old and
\* new status over pending, active, completed, dropped, suspended, and changes
\* nothing but the status field (and with it the cohort's derived count of
\* active enrollments).
C23_SetStatusUnconditional ==
    /\ [](\A e \in enrollments : \A st \in EnrollmentStatusChoices :
            ENABLED set_status(e, st))
    /\ [][\A e \in enrollments : \A st \in EnrollmentStatusChoices :
            set_status(e, st) =>
                /\ enrollments' = (enrollments \ {e}) \cup {[e EXCEPT !.status = st]}
                /\ UNCHANGED <<users, courses, phases, lessons, cohorts, progress>>
                /\ \A c \in cohorts :
                      current_students_count(c)' =
                          IF c.id = e.cohort
                          THEN current_students_count(c)
                                 - (IF e.status = "active" THEN 1 ELSE 0)
                                 + (IF st = "active" THEN 1 ELSE 0)
                          ELSE current_students_count(c)
       ]_vars

\* C23 witness: an enrollment made earlier, since advanced, whose status was
\* set to dropped (no creation yields it), beside an active one: the cohort
\* counts one active enrollment out of two.
C23_Witness ==
    /\ result = "saved"
    /\ \E e1, e2 \in enrollments : \E c \in cohorts :
          /\ e1.cohort = c.id /\ e2.cohort = c.id
          /\ e1.status = "dropped" /\ e1.enrollment_date < now
          /\ e1.current_phase # None
          /\ e2.status = "active"
          /\ current_students_count(c) = 1

(***************************************************************************)
(* Course, Phase: the catalog                                              *)
(***************************************************************************)

PhasesOf(c) == {ph \in phases : ph.course = c}

\* Course.total_price: self.price_per_phase * self.phases.count()
total_price_active_only(c) ==
    c.price_per_phase * Cardinality({ph \in PhasesOf(c.id) : ph.is_active})
total_price(c) == c.price_per_phase * Cardinality(PhasesOf(c.id))

\* Course.total_duration_days: sum(phase.duration_days for phase in
\* self.phases.all()), one term per phase row
RECURSIVE SumDurations(_)
SumDurations(rows) ==
    IF rows = {} THEN 0
    ELSE LET ph == CHOOSE x \in rows : TRUE
         IN  ph.duration_days + SumDurations(rows \ {ph})

total_duration_days_active_only(c) == SumDurations({ph \in PhasesOf(c.id) : ph.is_active})
total_duration_days(c) == SumDurations(PhasesOf(c.id))

\* CourseAdmin add form: the slug is unique.
AdminAddCourse(id, slug, price) ==
    /\ \A c \in courses : c.id # id
    /\ IF \E c \in courses : c.slug = slug
       THEN /\ result' = "DuplicateKey"
            /\ UNCHANGED courses
       ELSE /\ courses' = courses \cup {[id |-> id, slug |-> slug, price_per_phase |-> price]}
            /\ result' = "saved"
    /\ UNCHANGED <<now, users, phases, phaseTally, lessons, cohorts, enrollments, progress, pc>>

\* seed_curriculum: Course.objects.get_or_create(slug = ..., defaults = ...)
SeedGetOrCreateCourse(id, slug, price) ==
    /\ \A c \in courses : c.id # id
    /\ IF \E c \in courses : c.slug = slug
       THEN /\ result' = "exists"
            /\ UNCHANGED courses
       ELSE /\ courses' = courses \cup {[id |-> id, slug |-> slug, price_per_phase |-> price]}
            /\ result' = "created"
    /\ UNCHANGED <<now, users, phases, phaseTally, lessons, cohorts, enrollments, progress, pc>>

\* CourseAdmin change form, fields slug and price_per_phase; the slug stays
\* unique.
AdminChangeCourse(c, slug, price) ==
    /\ c \in courses
    /\ IF \E other \in courses : other.id # c.id /\ other.slug = slug
       THEN /\ result' = "DuplicateKey"
            /\ UNCHANGED courses
       ELSE /\ courses' = (courses \ {c}) \cup
                  {[c EXCEPT !.slug = slug, !.price_per_phase = price]}
            /\ result' = "saved"
    /\ UNCHANGED <<now, users, phases, phaseTally, lessons, cohorts, enrollments, progress, pc>>

\* The rows that go or change when the phases `ids` are deleted: their lessons
\* and the progress on those (CASCADE), the prerequisite edges to them, and
\* the enrollments' pointers to them (SET_NULL).
PhasesWithout(ids) ==
    {[ph EXCEPT !.prerequisites = @ \ ids] : ph \in {x \in phases : x.id \notin ids}}
LessonsIn(ids) == {ls.id : ls \in {x \in lessons : x.phase \in ids}}
LessonsKept(ids) == lessons
LessonsWithout(ids) == {ls \in lessons : ls.phase \notin ids}
ProgressWithout(ids) == {r \in progress : r.lesson \notin LessonsIn(ids)}
EnrollmentsCascaded(tbl, ids) ==
    {e \in tbl : e.current_phase \cap ids = {} /\ e.current_lesson \cap LessonsIn(ids) = {}}
EnrollmentsWithout(tbl, ids) ==
    {[e EXCEPT !.current_phase = @ \ ids, !.current_lesson = @ \ LessonsIn(ids)] : e \in tbl}

\* validators=[MinValueValidator(1), MaxValueValidator(365)] on duration_days
DurationValidNoMin(duration) == duration <= MaxDuration
DurationValid(duration) == duration >= MinDuration /\ duration <= MaxDuration

\* The prerequisites field of the phase form: every chosen phase must exist.
PrerequisitesValid(prereqs) == \A q \in prereqs : \E ph \in phases : ph.id = q

\* PhaseAdmin add form: the field validators (duration, prerequisites), then
\* (course, phase_number) is unique, then save() and the prerequisite edges.
AdminAddPhaseUpsert(id, course, number, duration, active, prereqs) ==
    /\ \A ph \in phases : ph.id # id
    /\ \E c \in courses : c.id = course
    /\ IF ~DurationValid(duration)
       THEN /\ result' = "ValidationError"
            /\ UNCHANGED <<phases, phaseTally>>
       ELSE IF ~PrerequisitesValid(prereqs)
       THEN /\ result' = "InvalidReference"
            /\ UNCHANGED <<phases, phaseTally>>
       ELSE IF \E ph \in PhasesOf(course) : ph.phase_number = number
       THEN /\ phases' = {IF ph.course = course /\ ph.phase_number = number
                          THEN [ph EXCEPT !.duration_days = duration, !.is_active = active]
                          ELSE ph : ph \in phases}
            /\ UNCHANGED phaseTally
            /\ result' = "DuplicateKey"
       ELSE /\ phases' = phases \cup
                  {[id |-> id, course |-> course, phase_number |-> number,
                    duration_days |-> duration, is_active |-> active,
                    prerequisites |-> prereqs]}
            /\ phaseTally' = [phaseTally EXCEPT ![course] = @ + 1]
            /\ result' = "saved"
    /\ UNCHANGED <<now, users, courses, lessons, cohorts, enrollments, progress, pc>>
AdminAddPhasePartial(id, course, number, duration, active, prereqs) ==
    /\ \A ph \in phases : ph.id # id
    /\ \E c \in courses : c.id = course
    /\ IF ~DurationValid(duration)
       THEN /\ result' = "ValidationError"
            /\ UNCHANGED <<phases, phaseTally>>
       ELSE IF \E ph \in PhasesOf(course) : ph.phase_number = number
       THEN /\ result' = "DuplicateKey"
            /\ UNCHANGED <<phases, phaseTally>>
       ELSE /\ phases' = phases \cup
                  {[id |-> id, course |-> course, phase_number |-> number,
                    duration_days |-> duration, is_active |-> active,
                    prerequisites |-> {q \in prereqs : \E ph \in phases : ph.id = q}]}
            /\ phaseTally' = [phaseTally EXCEPT ![course] = @ + 1]
            /\ result' = IF PrerequisitesValid(prereqs) THEN "saved" ELSE "InvalidReference"
    /\ UNCHANGED <<now, users, courses, lessons, cohorts, enrollments, progress, pc>>
AdminAddPhase(id, course, number, duration, active, prereqs) ==
    /\ \A ph \in phases : ph.id # id
    /\ \E c \in courses : c.id = course
    /\ IF ~DurationValid(duration)
       THEN /\ result' = "ValidationError"
            /\ UNCHANGED <<phases, phaseTally>>
       ELSE IF ~PrerequisitesValid(prereqs)
       THEN /\ result' = "InvalidReference"
            /\ UNCHANGED <<phases, phaseTally>>
       ELSE IF \E ph \in PhasesOf(course) : ph.phase_number = number
       THEN /\ result' = "DuplicateKey"
            /\ UNCHANGED <<phases, phaseTally>>
       ELSE /\ phases' = phases \cup
                  {[id |-> id, course |-> course, phase_number |-> number,
                    duration_days |-> duration, is_active |-> active,
                    prerequisites |-> prereqs]}
            /\ phaseTally' = [phaseTally EXCEPT ![course] = @ + 1]
            /\ result' = "saved"
    /\ UNCHANGED <<now, users, courses, lessons, cohorts, enrollments, progress, pc>>

\* seed_curriculum: Phase.objects.get_or_create(course, phase_number,
\* defaults = ..., is_active True).
SeedGetOrCreatePhase(id, course, number, duration) ==
    /\ \A ph \in phases : ph.id # id
    /\ \E c \in courses : c.id = course
    /\ IF \E ph \in PhasesOf(course) : ph.phase_number = number
       THEN /\ result' = "exists"
            /\ UNCHANGED <<phases, phaseTally>>
       ELSE /\ phases' = phases \cup
                  {[id |-> id, course |-> course, phase_number |-> number,
                    duration_days |-> duration, is_active |-> TRUE, prerequisites |-> {}]}
            /\ phaseTally' = [phaseTally EXCEPT ![course] = @ + 1]
            /\ result' = "created"
    /\ UNCHANGED <<now, users, courses, lessons, cohorts, enrollments, progress, pc>>

\* seed_curriculum, "Set up prerequisites": phase.prerequisites.add(prereq)
\* for two phases fetched earlier; the insert of the edge fails when either is
\* gone by now, and adding an edge that exists changes nothing.
SeedAddPrerequisite(phase, prereq) ==
    /\ IF \E ph \in phases : ph.id = phase /\ PrerequisitesValid({prereq})
       THEN /\ phases' = {IF ph.id = phase
                          THEN [ph EXCEPT !.prerequisites = @ \cup {prereq}]
                          ELSE ph : ph \in phases}
            /\ result' = "saved"
       ELSE /\ UNCHANGED phases
            /\ result' = "InvalidReference"
    /\ UNCHANGED <<now, users, courses, phaseTally, lessons, cohorts, enrollments, progress, pc>>

\* The change form, were it to refuse a phase as its own prerequisite.
AdminChangePhaseNoSelf(ph, course, number, duration, active, prereqs) ==
    /\ ph \in phases
    /\ \E c \in courses : c.id = course
    /\ IF ~DurationValid(duration) \/ ph.id \in prereqs
       THEN /\ result' = "ValidationError"
            /\ UNCHANGED <<phases, phaseTally>>
       ELSE IF ~PrerequisitesValid(prereqs)
       THEN /\ result' = "InvalidReference"
            /\ UNCHANGED <<phases, phaseTally>>
       ELSE IF \E other \in PhasesOf(course) : other.id # ph.id /\ other.phase_number = number
       THEN /\ result' = "DuplicateKey"
            /\ UNCHANGED <<phases, phaseTally>>
       ELSE /\ phases' = (phases \ {ph}) \cup
                  {[ph EXCEPT !.course = course, !.phase_number = number,
                              !.duration_days = duration, !.is_active = active,
                              !.prerequisites = prereqs]}
            /\ phaseTally' = IF course = ph.course THEN phaseTally
                             ELSE [phaseTally EXCEPT ![ph.course] = @ - 1, ![course] = @ + 1]
            /\ result' = "saved"
    /\ UNCHANGED <<now, users, courses, lessons, cohorts, enrollments, progress, pc>>
\* PhaseAdmin change form: the phase may be moved to another course,
\* renumbered, given another duration, other prerequisites and (de)activated;
\* the fields are validated and (course, phase_number) stays unique.
AdminChangePhase(ph, course, number, duration, active, prereqs) ==
    /\ ph \in phases
    /\ \E c \in courses : c.id = course
    /\ IF ~DurationValid(duration)
       THEN /\ result' = "ValidationError"
            /\ UNCHANGED <<phases, phaseTally>>
       ELSE IF ~PrerequisitesValid(prereqs)
       THEN /\ result' = "InvalidReference"
            /\ UNCHANGED <<phases, phaseTally>>
       ELSE IF \E other \in PhasesOf(course) : other.id # ph.id /\ other.phase_number = number
       THEN /\ result' = "DuplicateKey"
            /\ UNCHANGED <<phases, phaseTally>>
       ELSE /\ phases' = (phases \ {ph}) \cup
                  {[ph EXCEPT !.course = course, !.phase_number = number,
                              !.duration_days = duration, !.is_active = active,
                              !.prerequisites = prereqs]}
            /\ phaseTally' = IF course = ph.course THEN phaseTally
                             ELSE [phaseTally EXCEPT ![ph.course] = @ - 1, ![course] = @ + 1]
            /\ result' = "saved"
    /\ UNCHANGED <<now, users, courses, lessons, cohorts, enrollments, progress, pc>>

\* Deleting a phase in the admin.
AdminDeletePhase(ph) ==
    /\ ph \in phases
    /\ phases' = PhasesWithout({ph.id})
    /\ phaseTally' = [phaseTally EXCEPT ![ph.course] = @ - 1]
    /\ lessons' = LessonsWithout({ph.id})
    /\ progress' = ProgressWithout({ph.id})
    /\ enrollments' = EnrollmentsWithout(enrollments, {ph.id})
    /\ result' = "deleted"
    /\ UNCHANGED <<now, users, courses, cohorts, pc>>

\* Deleting a course in the admin: its phases and cohorts go with it
\* (CASCADE), and with them their lessons, progress rows and enrollments.
AdminDeleteCourse(c) ==
    /\ c \in courses
    /\ LET ids == {ph.id : ph \in PhasesOf(c.id)}
           gone == {k.id : k \in {x \in cohorts : x.course = c.id}}
       IN  /\ courses' = courses \ {c}
           /\ phases' = PhasesWithout(ids)
           /\ phaseTally' = [phaseTally EXCEPT ![c.id] = 0]
           /\ lessons' = LessonsWithout(ids)
           /\ progress' = ProgressWithout(ids)
           /\ cohorts' = {k \in cohorts : k.course # c.id}
           /\ enrollments' = EnrollmentsWithout({e \in enrollments : e.cohort \notin gone}, ids)
    /\ result' = "deleted"
    /\ UNCHANGED <<now, users, pc>>

\* LessonAdmin add form: the phase must exist and (phase, day_number) is
\* unique.
AdminAddLesson(id, phase, day, kc, pub) ==
    /\ \A ls \in lessons : ls.id # id
    /\ IF ~\E ph \in phases : ph.id = phase
       THEN /\ result' = "InvalidReference"
            /\ UNCHANGED lessons
       ELSE IF \E ls \in lessons : ls.phase = phase /\ ls.day_number = day
       THEN /\ result' = "DuplicateKey"
            /\ UNCHANGED lessons
       ELSE /\ lessons' = lessons \cup
                  {[id |-> id, phase |-> phase, day_number |-> day,
                    is_published |-> pub, has_knowledge_check |-> kc]}
            /\ result' = "saved"
    /\ UNCHANGED <<now, users, courses, phases, phaseTally, cohorts, enrollments, progress, pc>>

\* seed_curriculum: Lesson.objects.get_or_create(phase, day_number, defaults =
\* published, a knowledge check every third day).
SeedCreateLesson(id, phase, day) ==
    /\ \A ls \in lessons : ls.id # id
    /\ \E ph \in phases : ph.id = phase
    /\ lessons' = lessons \cup
          {[id |-> id, phase |-> phase, day_number |-> day,
            is_published |-> TRUE, has_knowledge_check |-> (day % 3 = 0)]}
    /\ result' = "created"
    /\ UNCHANGED <<now, users, courses, phases, phaseTally, cohorts, enrollments, progress, pc>>
SeedGetOrCreateLesson(id, phase, day) ==
    /\ \A ls \in lessons : ls.id # id
    /\ \E ph \in phases : ph.id = phase
    /\ IF \E ls \in lessons : ls.phase = phase /\ ls.day_number = day
       THEN /\ result' = "exists"
            /\ UNCHANGED lessons
       ELSE /\ lessons' = lessons \cup
                  {[id |-> id, phase |-> phase, day_number |-> day,
                    is_published |-> TRUE, has_knowledge_check |-> (day % 3 = 0)]}
            /\ result' = "created"
    /\ UNCHANGED <<now, users, courses, phases, phaseTally, cohorts, enrollments, progress, pc>>

\* LessonAdmin change form: the lesson may be moved to another phase and
\* renumbered; (phase, day_number) stays unique.
AdminChangeLesson(ls, phase, day, kc, pub) ==
    /\ ls \in lessons
    /\ IF ~\E ph \in phases : ph.id = phase
       THEN /\ result' = "InvalidReference"
            /\ UNCHANGED lessons
       ELSE IF \E other \in lessons :
                  other.id # ls.id /\ other.phase = phase /\ other.day_number = day
       THEN /\ result' = "DuplicateKey"
            /\ UNCHANGED lessons
       ELSE /\ lessons' = (lessons \ {ls}) \cup
                  {[ls EXCEPT !.phase = phase, !.day_number = day,
                              !.is_published = pub, !.has_knowledge_check = kc]}
            /\ result' = "saved"
    /\ UNCHANGED <<now, users, courses, phases, phaseTally, cohorts, enrollments, progress, pc>>

\* Deleting a lesson in the admin: the progress on it goes with it (CASCADE)
\* and the enrollments pointing at it have the pointer set to null (SET_NULL).
AdminDeleteLesson(ls) ==
    /\ ls \in lessons
    /\ lessons' = lessons \ {ls}
    /\ progress' = {r \in progress : r.lesson # ls.id}
    /\ enrollments' = {[e EXCEPT !.current_lesson = @ \ {ls.id}] : e \in enrollments}
    /\ result' = "deleted"
    /\ UNCHANGED <<now, users, courses, phases, phaseTally, cohorts, pc>>

\* seed_curriculum --clear: Course.objects.all().delete()
SeedCurriculumClear ==
    /\ courses' = {}
    /\ phases' = {}
    /\ phaseTally' = [c \in CourseIds |-> 0]
    /\ lessons' = {}
    /\ progress' = {}
    /\ cohorts' = {}
    /\ enrollments' = {}
    /\ result' = "cleared"
    /\ UNCHANGED <<now, users, pc>>

(***************************************************************************)
(* Specification of the catalog: courses and their phases are added,       *)
(* edited, moved and deleted, starting from an empty store.                *)
(***************************************************************************)
SlugInputs == {"s1", "s2"}
PriceInputs == {2500, 3000}
PhaseNumberInputs == {1, 2}
DurationInputs == {30}

InitCatalog ==
    /\ now = 0
    /\ courses = {}
    /\ phases = {}
    /\ lessons = {}
    /\ cohorts = {}
    /\ enrollments = {}
    /\ progress = {}
    /\ phaseTally = TallyOf(phases)
    /\ users = SeededStudents
    /\ pc = IdlePc
    /\ result = "none"

AdminAddCourseStep ==
    \E id \in CourseIds, slug \in SlugInputs, price \in PriceInputs :
        AdminAddCourse(id, slug, price)

AdminChangeCourseStep ==
    \E c \in courses, slug \in SlugInputs, price \in PriceInputs :
        AdminChangeCourse(c, slug, price)

AdminAddPhaseStep ==
    \E id \in PhaseIds, c \in CourseIds, n \in PhaseNumberInputs,
       d \in DurationInputs, a \in BOOLEAN :
        AdminAddPhase(id, c, n, d, a, {})

SeedGetOrCreatePhaseStep ==
    \E id \in PhaseIds, c \in CourseIds, n \in PhaseNumberInputs, d \in DurationInputs :
        SeedGetOrCreatePhase(id, c, n, d)

AdminChangePhaseStep ==
    \E ph \in phases, c \in CourseIds, n \in PhaseNumberInputs,
       d \in DurationInputs, a \in BOOLEAN :
        AdminChangePhase(ph, c, n, d, a, ph.prerequisites)

AdminDeletePhaseStep == \E ph \in phases : AdminDeletePhase(ph)

AdminDeleteCourseStep == \E c \in courses : AdminDeleteCourse(c)

NextCatalog ==
    \/ AdminAddCourseStep
    \/ AdminChangeCourseStep
    \/ AdminAddPhaseStep
    \/ SeedGetOrCreatePhaseStep
    \/ AdminChangePhaseStep
    \/ AdminDeletePhaseStep
    \/ AdminDeleteCourseStep
    \/ SeedCurriculumClear

SpecCatalog == InitCatalog /\ [][NextCatalog]_vars

\* C7: for every course, after any sequence of phase additions and removals in
\* this or any other course, total_price is price_per_phase times the number
\* of phases now attached to the course (added and not since removed), active
\* or not.
C7_TotalPriceIsPriceTimesPhases ==
    \A c \in courses : total_price(c) = c.price_per_phase * phaseTally[c.id]

\* C7 witness: after a removal, a course priced 3000 per phase that holds two
\* phases, one of them inactive, has total_price 6000.
C7_Witness ==
    /\ result = "deleted"
    /\ \E c \in courses :
          /\ c.price_per_phase = 3000
          /\ phaseTally[c.id] = 2
          /\ total_price(c) = 6000
          /\ \E ph \in PhasesOf(c.id) : ~ph.is_active

(***************************************************************************)
(* Specification of the keys: courses, phases, lessons and progress rows   *)
(* are created through the admin forms and the seed commands' get_or_create*)
(* with colliding keys, edited and deleted, starting from an empty store.  *)
(***************************************************************************)
KeyPhaseIds == {"p1", "p2"}
KeyDays == {1, 2}

InitKeys ==
    /\ now = 0
    /\ courses = {}
    /\ phases = {}
    /\ lessons = {}
    /\ cohorts = {}
    /\ enrollments = {}
    /\ progress = {}
    /\ phaseTally = TallyOf(phases)
    /\ users = SeededStudents
    /\ pc = IdlePc
    /\ result = "none"

NextKeys ==
    \/ \E id \in CourseIds, slug \in SlugInputs, price \in {3000} :
          AdminAddCourse(id, slug, price)
    \/ \E id \in CourseIds, slug \in SlugInputs, price \in {3000} :
          SeedGetOrCreateCourse(id, slug, price)
    \/ \E c \in courses, slug \in SlugInputs, price \in {3000} :
          AdminChangeCourse(c, slug, price)
    \/ \E id \in KeyPhaseIds, c \in CourseIds, n \in PhaseNumberInputs, d \in {30} :
          AdminAddPhase(id, c, n, d, TRUE, {})
    \/ \E id \in KeyPhaseIds, c \in CourseIds, n \in PhaseNumberInputs :
          SeedGetOrCreatePhase(id, c, n, 45)
    \/ \E ph \in phases, c \in CourseIds, n \in PhaseNumberInputs :
          AdminChangePhase(ph, c, n, ph.duration_days, TRUE, ph.prerequisites)
    \/ \E id \in LessonIds, ph \in KeyPhaseIds, day \in KeyDays :
          AdminAddLesson(id, ph, day, FALSE, TRUE)
    \/ \E id \in LessonIds, ph \in KeyPhaseIds, day \in KeyDays :
          SeedGetOrCreateLesson(id, ph, day)
    \/ \E ls \in lessons, ph \in KeyPhaseIds, day \in KeyDays :
          AdminChangeLesson(ls, ph, day, ls.has_knowledge_check, TRUE)
    \/ \E u \in ProgressUsers, ls \in lessons :
          record_progress(u, ls.id, TRUE, None)
    \/ \E u \in ProgressUsers, ls \in lessons :
          SeedGetOrCreateProgress(u, ls.id, 1, 70)
    \/ AdminDeleteCourseStep

SpecKeys == InitKeys /\ [][NextKeys]_vars

\* C12: in every reachable state no two Courses share a slug, no two Phases
\* share (course, phase_number), no two Lessons share (phase, day_number), and
\* no two Progress rows share (account, lesson).
C12_KeysUnique ==
    /\ \A c1, c2 \in courses : c1.slug = c2.slug => c1 = c2
    /\ \A p1, p2 \in phases :
          (p1.course = p2.course /\ p1.phase_number = p2.phase_number) => p1 = p2
    /\ \A l1, l2 \in lessons :
          (l1.phase = l2.phase /\ l1.day_number = l2.day_number) => l1 = l2
    /\ \A r1, r2 \in progress :
          (r1.user = r2.user /\ r1.lesson = r2.lesson) => r1 = r2

\* C12 witness: a colliding key was just refused in a store that holds two
\* courses, two phases of one course, two lessons of one phase and two
\* progress rows of one account.
C12_Witness ==
    /\ result = "DuplicateKey"
    /\ Cardinality(courses) = 2
    /\ \E p1, p2 \in phases : p1 # p2 /\ p1.course = p2.course
    /\ \E l1, l2 \in lessons : l1 # l2 /\ l1.phase = l2.phase
    /\ \E r1, r2 \in progress : r1 # r2 /\ r1.user = r2.user

PrerequisiteInputs == SUBSET PhaseIds

InitPrereq ==
    /\ now = 0
    /\ courses = {[id |-> "c1", slug |-> "s1", price_per_phase |-> 3000]}
    /\ phases = {}
    /\ lessons = {}
    /\ cohorts = {}
    /\ enrollments = {}
    /\ progress = {}
    /\ phaseTally = TallyOf(phases)
    /\ users = SeededStudents
    /\ pc = IdlePc
    /\ result = "none"

NextPrereq ==
    \/ \E id \in PhaseIds, n \in PhaseNumberInputs, qs \in PrerequisiteInputs :
          AdminAddPhase(id, "c1", n, 30, TRUE, qs)
    \/ \E ph \in phases, qs \in PrerequisiteInputs :
          AdminChangePhase(ph, ph.course, ph.phase_number, ph.duration_days, TRUE, qs)
    \/ \E id \in PhaseIds, n \in PhaseNumberInputs :
          SeedGetOrCreatePhase(id, "c1", n, 30)
    \/ \E a \in PhaseIds, b \in PhaseIds : SeedAddPrerequisite(a, b)
    \/ AdminDeletePhaseStep

SpecPrereq == InitPrereq /\ [][NextPrereq]_vars

PhaseIdsNow == {ph.id : ph \in phases}

AdminDurationInputs == {0, 1, 365, 366}
SeedDurations == {21, 45}

InitDuration ==
    /\ now = 0
    /\ courses = {[id |-> "c1", slug |-> "s1", price_per_phase |-> 3000]}
    /\ phases = {}
    /\ lessons = {}
    /\ cohorts = {}
    /\ enrollments = {}
    /\ progress = {}
    /\ phaseTally = TallyOf(phases)
    /\ users = SeededStudents
    /\ pc = IdlePc
    /\ result = "none"

NextDuration ==
    \/ \E id \in KeyPhaseIds, n \in PhaseNumberInputs, d \in AdminDurationInputs :
          AdminAddPhase(id, "c1", n, d, TRUE, {})
    \/ \E ph \in phases, n \in PhaseNumberInputs, d \in AdminDurationInputs :
          AdminChangePhase(ph, ph.course, n, d, ph.is_active, ph.prerequisites)
    \/ \E id \in KeyPhaseIds, n \in PhaseNumberInputs, d \in SeedDurations :
          SeedGetOrCreatePhase(id, "c1", n, d)
    \/ AdminDeletePhaseStep

SpecDuration == InitDuration /\ [][NextDuration]_vars

\* C15: every stored Phase has 1 <= duration_days <= 365 in every reachable
\* state, and a phase form carrying a duration outside 1..365 is rejected with
\* ValidationError with no phase written or changed.
C15_DurationInRange ==
    /\ [](\A ph \in phases : ph.duration_days >= 1 /\ ph.duration_days <= 365)
    /\ [][ /\ result' = "ValidationError" => phases' = phases
           /\ \A d \in {x \in AdminDurationInputs : x < 1 \/ x > 365} :
                 /\ \A id \in KeyPhaseIds, n \in PhaseNumberInputs :
                       AdminAddPhase(id, "c1", n, d, TRUE, {}) =>
                           result' = "ValidationError" /\ phases' = phases
                 /\ \A ph \in phases, n \in PhaseNumberInputs :
                       AdminChangePhase(ph, ph.course, n, d, ph.is_active, ph.prerequisites) =>
                           result' = "ValidationError" /\ phases' = phases
         ]_vars

\* C15 witness: a duration out of range was just rejected while the course
\* holds a phase of 1 day and a phase of 365 days.
C15_Witness ==
    /\ result = "ValidationError"
    /\ \E ph \in phases : ph.duration_days = 1
    /\ \E ph \in phases : ph.duration_days = 365

(***************************************************************************)
(* Specification of deletion: a seeded store of two courses with their     *)
(* phases, lessons and a cohort, in which students are enrolled, advance   *)
(* and record progress while rows are deleted one by one or cleared in     *)
(* bulk, and some are seeded again.                                        *)
(***************************************************************************)

InitCascade ==
    /\ now = 0
    /\ courses = {[id |-> "c1", slug |-> "s1", price_per_phase |-> 3000],
                  [id |-> "c2", slug |-> "s2", price_per_phase |-> 2500]}
    /\ phases = {[id |-> "p1", course |-> "c1", phase_number |-> 1,
                  duration_days |-> 30, is_active |-> TRUE, prerequisites |-> {}],
                 [id |-> "p2", course |-> "c1", phase_number |-> 2,
                  duration_days |-> 30, is_active |-> TRUE, prerequisites |-> {"p1"}],
                 [id |-> "p3", course |-> "c2", phase_number |-> 1,
                  duration_days |-> 30, is_active |-> TRUE, prerequisites |-> {}]}
    /\ lessons = {[id |-> "l1", phase |-> "p1", day_number |-> 1,
                   is_published |-> TRUE, has_knowledge_check |-> FALSE],
                  [id |-> "l2", phase |-> "p2", day_number |-> 1,
                   is_published |-> TRUE, has_knowledge_check |-> FALSE]}
    /\ cohorts = {[id |-> "k1", course |-> "c1", status |-> "upcoming",
                   max_students |-> 2, start_date |-> MaxTime + 1]}
    /\ enrollments = {}
    /\ progress = {}
    /\ phaseTally = TallyOf(phases)
    /\ users = SeededStudents
    /\ pc = IdlePc
    /\ result = "none"

NextCascade ==
    \/ \E u \in {"u1"} : AdminAddEnrollment(u, "k1", None)
    \/ \E e \in enrollments, ls \in lessons :
          advance(e, Some(ls.phase), Some(ls.id))
    \/ \E u \in {"u1"}, ls \in lessons, completed \in BOOLEAN :
          record_progress(u, ls.id, completed, None)
    \/ \E id \in LessonIds, ph \in phases :
          SeedGetOrCreateLesson(id, ph.id, 1)
    \/ AdminDeleteCourseStep
    \/ AdminDeletePhaseStep
    \/ \E ls \in lessons : AdminDeleteLesson(ls)
    \/ AdminDeleteCohortStep
    \/ AdminDeleteEnrollmentStep
    \/ \E row \in progress : AdminDeleteProgress(row)
    \/ SeedStudentsClear
    \/ SeedCurriculumClear

SpecCascade == InitCascade /\ [][NextCascade]_vars

IdsOf(tbl) == {r.id : r \in tbl}

\* C16: deleting a Course deletes every Phase of that course and every Lesson
\* of those phases, and deleting a Cohort deletes every Enrollment of that
\* cohort; in every reachable state each Phase, Lesson and Enrollment refers
\* to a Course, Phase and Cohort that exists.
C16_CascadeKeepsParents ==
    /\ []( /\ \A ph \in phases : ph.course \in IdsOf(courses)
           /\ \A ls \in lessons : ls.phase \in IdsOf(phases)
           /\ \A e \in enrollments : e.cohort \in IdsOf(cohorts) )
    /\ [][ /\ \A c \in courses : c.id \notin IdsOf(courses') =>
                 \A ph \in phases : ph.course = c.id =>
                     /\ ph.id \notin IdsOf(phases')
                     /\ \A ls \in lessons : ls.phase = ph.id => ls.id \notin IdsOf(lessons')
           /\ \A k \in cohorts : k.id \notin IdsOf(cohorts') =>
                 \A e \in enrollments' : e.cohort # k.id
         ]_vars

\* C16 witness: course c1 was just deleted with its two phases, their lessons
\* and its cohort; course c2 and its phase remain.
C16_Witness ==
    /\ result = "deleted"
    /\ IdsOf(courses) = {"c2"}
    /\ IdsOf(phases) = {"p3"}
    /\ lessons = {}
    /\ cohorts = {}
    /\ enrollments = {}
    /\ progress = {}
    /\ phaseTally["c1"] = 0 /\ phaseTally["c2"] = 1

\* C17: deleting a Phase or a Lesson that an Enrollment references as
\* current_phase or current_lesson sets that pointer to null and keeps the
\* Enrollment row with its account, cohort, status and enrollment_date; no
\* Enrollment ever points at a Phase or Lesson that does not exist.
C17_DeleteNullsPointers ==
    /\ []( \A e \in enrollments :
              /\ e.current_phase \subseteq IdsOf(phases)
              /\ e.current_lesson \subseteq IdsOf(lessons) )
    /\ [][ \A e \in enrollments :
              ( /\ result' = "deleted"
                /\ e.cohort \in IdsOf(cohorts')
                /\ \/ ~(e.current_phase \subseteq IdsOf(phases'))
                   \/ ~(e.current_lesson \subseteq IdsOf(lessons')) )
              => \E e2 \in enrollments' :
                    /\ e2.user = e.user /\ e2.cohort = e.cohort
                    /\ e2.status = e.status /\ e2.enrollment_date = e.enrollment_date
                    /\ e2.current_phase = e.current_phase \cap IdsOf(phases')
                    /\ e2.current_lesson = e.current_lesson \cap IdsOf(lessons')
         ]_vars

\* C17 witness: lesson l2 of phase p2 was just deleted while an enrollment
\* pointed at both (advance sets the two pointers together); the enrollment is
\* still there, pointing at p2 and at no lesson.
C17_Witness ==
    /\ result = "deleted"
    /\ "l2" \notin IdsOf(lessons) /\ "p2" \in IdsOf(phases)
    /\ \E e \in enrollments :
          /\ e.current_phase = Some("p2") /\ e.current_lesson = None
          /\ e.status = "pending"
    /\ cohorts # {}

ProgressKeys(tbl) == {<<r.user, r.lesson>> : r \in tbl}

\* C18 as stated: Progress rows are removed only by administrative clearing
\* (a clearing command, or an administrator deleting progress rows); no other
\* operation, in particular deleting a single Lesson, Phase or Course, removes
\* a Progress row.
C18_ProgressRemovedOnlyByClearing ==
    [][ \/ ProgressKeys(progress) \subseteq ProgressKeys(progress')
        \/ result' = "cleared"
        \/ result' = "deleted" /\ lessons' = lessons /\ users' = users
      ]_vars

\* C18 amended: a Progress row is removed only by bulk clearing, by the
\* deletion of that row itself, or by the cascade from the deletion of its
\* Lesson (alone or with the lesson's Phase or Course) or of its Account;
\* recording progress, enrolling, advancing and seeding remove none.
C18_ProgressRemovedOnlyByDeletion ==
    [][\A r \in progress :
          <<r.user, r.lesson>> \notin ProgressKeys(progress') =>
              \/ result' = "cleared"
              \/ /\ result' = "deleted"
                 /\ \/ r.lesson \notin IdsOf(lessons')
                    \/ r.user \notin IdsOf(users')
                    \/ progress' = progress \ {r}
      ]_vars

\* C18 witness: lesson l1 was just deleted, by itself, from a store that holds
\* a student's progress; what is left is the student's progress on lesson l2.
C18_Witness ==
    /\ result = "deleted"
    /\ IdsOf(lessons) = {"l2"}
    /\ ProgressKeys(progress) = {<<"u1", "l2">>}
    /\ IdsOf(phases) = {"p1", "p2", "p3"}


(***************************************************************************)
(* Specification of advancing: the seeded store of two courses (p2 has the  *)
(* prerequisite p1, p3 belongs to the other course); an enrolled student's  *)
(* status is set, progress is recorded, lessons are deleted, and the        *)
(* enrollment's current phase and lesson are overwritten with any pair.     *)
(***************************************************************************)
NextAdvance ==
    \/ Tick
    \/ \E u \in {"u1"} : AdminAddEnrollment(u, "k1", None)
    \/ SetAnyStatusStep
    \/ \E e \in enrollments, ph \in phases, ls \in lessons :
          advance(e, Some(ph.id), Some(ls.id))
    \/ \E u \in {"u1"}, ls \in lessons : record_progress(u, ls.id, TRUE, None)
    \/ \E ls \in lessons : AdminDeleteLesson(ls)

SpecAdvance == InitCascade /\ [][NextAdvance]_vars

\* C22: advance(enrollment, new_phase, new_lesson) succeeds for every existing
\* phase and lesson (also a lesson of another phase, a phase of another
\* course, a phase whose prerequisites are not completed), and afterwards
\* current_phase = new_phase and current_lesson = new_lesson while status and
\* enrollment_date are unchanged.
C22_AdvanceUnconditional ==
    /\ [](\A e \in enrollments : \A ph \in phases : \A ls \in lessons :
            ENABLED advance(e, Some(ph.id), Some(ls.id)))
    /\ [][\A e \in enrollments : \A ph \in phases : \A ls \in lessons :
            advance(e, Some(ph.id), Some(ls.id)) =>
                /\ result' = "saved"
                /\ \E f \in enrollments' :
                      /\ f.user = e.user /\ f.cohort = e.cohort
                      /\ f.current_phase = Some(ph.id)
                      /\ f.current_lesson = Some(ls.id)
                      /\ f.status = e.status
                      /\ f.enrollment_date = e.enrollment_date
                      /\ enrollments' = (enrollments \ {e}) \cup {f}
       ]_vars

\* C22 witness: a suspended student, enrolled earlier and with no progress
\* recorded, was just advanced to phase p3 of the other course with lesson
\* l2, which belongs to phase p2.
C22_Witness ==
    /\ result = "saved"
    /\ progress = {}
    /\ \E e \in enrollments : \E k \in cohorts : \E ph \in phases : \E ls \in lessons :
          /\ e.cohort = k.id
          /\ e.current_phase = Some(ph.id) /\ ph.course # k.course
          /\ e.current_lesson = Some(ls.id) /\ ls.phase # ph.id
          /\ e.status = "suspended"
          /\ e.enrollment_date < now


(***************************************************************************)
(* Specification of the prerequisite edges: in the seeded store of two     *)
(* courses the prerequisites of each phase are edited in the admin, edges  *)
(* are added one by one, and phases are deleted.                           *)
(***************************************************************************)
NextEdges ==
    \/ \E ph \in phases, qs \in PrerequisiteInputs :
          AdminChangePhase(ph, ph.course, ph.phase_number, ph.duration_days, TRUE, qs)
    \/ \E a \in PhaseIds, b \in PhaseIds : SeedAddPrerequisite(a, b)
    \/ AdminDeletePhaseStep

SpecEdges == InitCascade /\ [][NextEdges]_vars

\* C24: any prerequisite edge between existing phases is accepted, also an
\* edge to a phase of another course, an edge from a phase to itself and an
\* edge that closes a cycle.
C24_AnyPrerequisiteEdgeAccepted ==
    [][ /\ \A ph \in phases : \A qs \in SUBSET PhaseIdsNow :
              AdminChangePhase(ph, ph.course, ph.phase_number, ph.duration_days, TRUE, qs) =>
                  /\ result' = "saved"
                  /\ \E x \in phases' : x.id = ph.id /\ x.prerequisites = qs
        /\ \A a \in PhaseIdsNow : \A b \in PhaseIdsNow :
              SeedAddPrerequisite(a, b) =>
                  /\ result' = "saved"
                  /\ \E x \in phases' : x.id = a /\ b \in x.prerequisites
      ]_vars

\* C24 witness: a stored prerequisite graph that is not acyclic: two phases
\* are each other's prerequisite, a phase is its own prerequisite, and a phase
\* has a prerequisite in another course.
C24_Witness ==
    /\ result = "saved"
    /\ \E a, b \in phases :
          a.id # b.id /\ b.id \in a.prerequisites /\ a.id \in b.prerequisites
    /\ \E a \in phases : a.id \in a.prerequisites
    /\ \E a, b \in phases : b.id \in a.prerequisites /\ a.course # b.course


(***************************************************************************)
(* Specification of the course totals: in the seeded store of two courses  *)
(* phases are added, moved between the courses, renumbered, given another  *)
(* duration, (de)activated and deleted, alone or with their course.        *)
(***************************************************************************)

NextTotals ==
    \/ \E id \in PhaseIds, c \in courses, n \in PhaseNumberInputs, d \in ({30} \cup SeedDurations) :
          AdminAddPhase(id, c.id, n, d, TRUE, {})
    \/ \E ph \in phases, c \in courses, n \in PhaseNumberInputs,
          d \in ({30} \cup SeedDurations), a \in BOOLEAN :
          AdminChangePhase(ph, c.id, n, d, a, ph.prerequisites)
    \/ AdminDeletePhaseStep
    \/ AdminDeleteCourseStep

SpecTotals == InitCascade /\ [][NextTotals]_vars

\* The duration that the phase with primary key p, if stored and attached to
\* course c, has in the table.
DurationAt(p, c) ==
    IF \E ph \in phases : ph.id = p /\ ph.course = c
    THEN (CHOOSE ph \in phases : ph.id = p /\ ph.course = c).duration_days
    ELSE 0

\* C25: for every course, after any sequence of phase additions, removals,
\* moves and duration edits, total_duration is the sum of duration_days over
\* the phases now attached to the course, 0 for a course without phases.
C25_TotalDurationIsSum ==
    \A c \in courses :
        /\ total_duration_days(c) =
              DurationAt("p1", c.id) + DurationAt("p2", c.id) + DurationAt("p3", c.id)
        /\ PhasesOf(c.id) = {} => total_duration_days(c) = 0

\* C25 witness: after an edit, one course holds two phases of 45 days, one of
\* them inactive, and totals 90 days, while the other course has no phase
\* and totals 0.
C25_Witness ==
    /\ result = "saved"
    /\ \E c1, c2 \in courses :
          /\ Cardinality(PhasesOf(c1.id)) = 2
          /\ \A ph \in PhasesOf(c1.id) : ph.duration_days = 45
          /\ \E ph \in PhasesOf(c1.id) : ~ph.is_active
          /\ total_duration_days(c1) = 90
          /\ PhasesOf(c2.id) = {}
          /\ total_duration_days(c2) = 0

(***************************************************************************)
(* Registration                                                            *)
(***************************************************************************)

\* BaseUserManager.normalize_email: the domain part is lowercased, the local
\* part is kept as typed.
LowerCase(d) == IF d = "X.COM" THEN "x.com" ELSE d
normalize_email(email) == [email EXCEPT !.domain = LowerCase(@)]

\* email = models.EmailField(unique=True): the unique index on the column.
EmailUniqueOff(email) == TRUE
EmailFree(email) == \A a \in users : a.email # email

\* UserRegistrationForm.save: create_user with the cleaned fields of the form
\* and role = 'student'; is_staff and is_superuser keep their defaults, and
\* nothing else of the request is read.
RegisteredAccountAsPosted(id, post) ==
    [id |-> id, email |-> normalize_email(post.email),
     role |-> IF post.role = "" THEN "student" ELSE post.role,
     is_staff |-> post.is_staff, is_superuser |-> post.is_superuser,
     first_name |-> post.first_name, last_name |-> post.last_name,
     phone_number |-> post.phone_number, password |-> post.password]
RegisteredAccount(id, post) ==
    [id |-> id, email |-> normalize_email(post.email), role |-> "student",
     is_staff |-> FALSE, is_superuser |-> FALSE,
     first_name |-> post.first_name, last_name |-> post.last_name,
     phone_number |-> post.phone_number, password |-> post.password]

\* UserRegistrationView.post, up to form.is_valid(): clean_email looks the
\* email up as it was typed.
RegisterValidate(p, post) ==
    /\ pc[p].at \in {"idle", "posted"}
    /\ IF \E a \in users : a.email = post.email
       THEN /\ pc' = [pc EXCEPT ![p] = NoRequest]
            /\ result' = "ValidationError"
       ELSE /\ pc' = [pc EXCEPT ![p] = [NoRequest EXCEPT !.at = "valid", !.post = post]]
            /\ result' = "valid"
    /\ UNCHANGED <<now, users, courses, phases, phaseTally, lessons, cohorts, enrollments, progress>>

\* UserRegistrationView.post, form.save(): create_user normalizes the email
\* and inserts; the unique index refuses a second row with the email, and the
\* view reports the exception as a message.
RegisterSave(p) ==
    /\ pc[p].at = "valid"
    /\ IdsOf(users) # UserIds
    /\ LET id == CHOOSE x \in UserIds \ IdsOf(users) : TRUE
           row == RegisteredAccount(id, pc[p].post)
       IN  IF EmailFree(row.email)
           THEN /\ users' = users \cup {row}
                /\ result' = "registered"
           ELSE /\ UNCHANGED users
                /\ result' = "IntegrityError"
    /\ pc' = [pc EXCEPT ![p].at = "posted"]
    /\ UNCHANGED <<now, courses, phases, phaseTally, lessons, cohorts, enrollments, progress>>

\* UserManager.create_superuser: is_staff, is_superuser and role admin by
\* default, then create_user.
create_superuser(email) ==
    /\ IdsOf(users) # UserIds
    /\ LET id == CHOOSE x \in UserIds \ IdsOf(users) : TRUE
           row == [id |-> id, email |-> normalize_email(email), role |-> "admin",
                   is_staff |-> TRUE, is_superuser |-> TRUE,
                   first_name |-> "Admin", last_name |-> "Admin",
                   phone_number |-> "", password |-> "admin"]
       IN  IF EmailFree(row.email)
           THEN /\ users' = users \cup {row}
                /\ result' = "created"
           ELSE /\ UNCHANGED users
                /\ result' = "IntegrityError"
    /\ UNCHANGED <<now, courses, phases, phaseTally, lessons, cohorts, enrollments, progress, pc>>

(***************************************************************************)
(* Specification of the accounts: two registration requests run at once,   *)
(* with emails that differ by case only and with fields the form does not  *)
(* declare; superusers are created and the students cleared.               *)
(***************************************************************************)
EmailInputs == {[local |-> l, domain |-> d] : l \in {"a", "b"}, d \in {"x.com", "X.COM"}}
PostInputs ==
    {[NoPost EXCEPT !.email = e, !.first_name = "Ann", !.last_name = "Lee",
                    !.password = "secret"] : e \in EmailInputs}
    \cup
    {[NoPost EXCEPT !.email = e, !.first_name = "Ann", !.last_name = "Lee",
                    !.password = "secret", !.role = "admin", !.is_staff = TRUE,
                    !.is_superuser = TRUE] : e \in EmailInputs}

InitAccounts ==
    /\ now = 0
    /\ users = {}
    /\ courses = {}
    /\ phases = {}
    /\ lessons = {}
    /\ cohorts = {}
    /\ enrollments = {}
    /\ progress = {}
    /\ phaseTally = TallyOf(phases)
    /\ pc = IdlePc
    /\ result = "none"

NextAccounts ==
    \/ \E p \in Procs, post \in PostInputs : RegisterValidate(p, post)
    \/ \E p \in Procs : RegisterSave(p)
    \/ \E e \in EmailInputs : create_superuser(e)
    \/ SeedStudentsClear

SpecAccounts == InitAccounts /\ [][NextAccounts]_vars

\* C19: no two Accounts have the same email in any reachable state, also when
\* two registrations for one email run at once; a registration whose email
\* already belongs to an Account, at validation or at the insert, creates no
\* Account and leaves the existing ones unchanged.
C19_EmailUnique ==
    /\ [](\A a, b \in users : a.email = b.email => a = b)
    /\ [][ /\ result' \in {"ValidationError", "IntegrityError"} => users' = users
           /\ \A p \in Procs :
                 ( /\ pc[p].at = "valid" /\ pc'[p].at = "posted"
                   /\ \E a \in users :
                         /\ a.email.local = pc[p].post.email.local
                         /\ a.email.domain = "x.com" )
                 => users' = users /\ result' = "IntegrityError"
           /\ \A p \in Procs :
                 ( /\ pc[p].at \in {"idle", "posted"} /\ pc'[p].at = "valid" )
                 => \A a \in users : a.email # pc'[p].post.email
         ]_vars

\* C19 witness: two requests posted the same email a@x.com, both passed the
\* validation, one inserted and the other was refused at the insert.
C19_Witness ==
    /\ result = "IntegrityError"
    /\ pc["r1"].at = "posted" /\ pc["r2"].at = "posted"
    /\ pc["r1"].post.email = [local |-> "a", domain |-> "x.com"]
    /\ pc["r2"].post.email = pc["r1"].post.email
    /\ Cardinality(users) = 1
    /\ \A a \in users : a.role = "student"

\* C20: every Account created through self-registration has role student and
\* is neither staff nor superuser, whatever fields the request carries.
C20_RegisteredIsStudent ==
    [][result' = "registered" =>
          /\ users' # users
          /\ \A a \in users' \ users :
                a.role = "student" /\ ~a.is_staff /\ ~a.is_superuser
      ]_vars

\* C20 witness: a request carrying role admin and the staff and superuser
\* flags was just registered, next to a superuser created by the manager.
C20_Witness ==
    /\ result = "registered"
    /\ \E p \in Procs :
          /\ pc[p].at = "posted"
          /\ pc[p].post.role = "admin" /\ pc[p].post.is_staff
          /\ \E a \in users :
                /\ a.email = normalize_email(pc[p].post.email)
                /\ a.role = "student"
    /\ \E a \in users : a.is_superuser


(***************************************************************************)
(* Profile editing                                                         *)
(***************************************************************************)

\* UserProfileEditView.post of the logged-in user u: the registration form
\* without its password fields validates the request (first and last name
\* required, clean_email looks the email up among all accounts); when valid
\* the names and the phone number are written to the user, else the page is
\* shown again with the errors.
ProfileEditPost(u, post) ==
    /\ UserExists(u)
    /\ LET user == CHOOSE a \in users : a.id = u
       IN  IF \/ post.first_name = "" \/ post.last_name = ""
              \/ \E a \in users : a.email = post.email
           THEN /\ result' = "ValidationError"
                /\ UNCHANGED users
           ELSE /\ users' = (users \ {user}) \cup
                      {[user EXCEPT !.first_name = post.first_name,
                                    !.last_name = post.last_name,
                                    !.phone_number = post.phone_number]}
                /\ result' = "saved"
    /\ UNCHANGED <<now, courses, phases, phaseTally, lessons, cohorts, enrollments, progress, pc>>

(***************************************************************************)
(* Specification of profile editing: accounts are seeded and registered,   *)
(* and each posts the profile form with its own email or with another,     *)
(* with and without a first name.                                          *)
(***************************************************************************)

NextProfile ==
    \/ \E u \in UserIds : SeedGetOrCreateUser(u)
    \/ \E post \in PostInputs : RegisterValidate("r1", post)
    \/ RegisterSave("r1")
    \/ \E a \in users : \E e \in {a.email, [local |-> "c", domain |-> "x.com"]}, f \in {"", "Jo"} :
          ProfileEditPost(a.id, [NoPost EXCEPT !.email = e, !.first_name = f,
                                               !.last_name = "Roe",
                                               !.phone_number = "+1"])

SpecProfile == InitAccounts /\ [][NextProfile]_vars

\* C27: a logged-in user who posts the profile form with their own current
\* email and valid first and last names has first_name, last_name and
\* phone_number updated to the submitted values, while email, role and
\* password stay unchanged.
C27_ProfileEditUpdatesNames ==
    [][\A a \in users : \A f \in {"Jo"} :
          ProfileEditPost(a.id, [NoPost EXCEPT !.email = a.email, !.first_name = f,
                                               !.last_name = "Roe",
                                               !.phone_number = "+1"]) =>
              users' = (users \ {a}) \cup
                  {[a EXCEPT !.first_name = f, !.last_name = "Roe",
                             !.phone_number = "+1"]}
      ]_vars


(***************************************************************************)
(* The seed commands, statement by statement                               *)
(***************************************************************************)

\* The five courses of seed_curriculum in the order of Command.handle; a row
\* created by the command is given the primary key listed here.
SeedCoursesData ==
    << [id |-> "c1", slug |-> "software-engineering-bootcamp", price_per_phase |-> 3000],
       [id |-> "c2", slug |-> "mobile-app-development", price_per_phase |-> 2500],
       [id |-> "c3", slug |-> "cyber-security", price_per_phase |-> 4000],
       [id |-> "c4", slug |-> "data-science-analytics", price_per_phase |-> 3500],
       [id |-> "c5", slug |-> "cloud-computing", price_per_phase |-> 3500] >>

\* phases_data of the five create_..._phases functions: the duration and the
\* prerequisite phase numbers of phases 1..6 (the last two functions set no
\* prerequisites).
SeedPhasesData ==
    << << [duration_days |-> 30, prerequisites |-> {}],
          [duration_days |-> 30, prerequisites |-> {1}],
          [duration_days |-> 30, prerequisites |-> {1}],
          [duration_days |-> 45, prerequisites |-> {2, 3}],
          [duration_days |-> 45, prerequisites |-> {2, 3}],
          [duration_days |-> 30, prerequisites |-> {4, 5}] >>,
       << [duration_days |-> 30, prerequisites |-> {}],
          [duration_days |-> 30, prerequisites |-> {1}],
          [duration_days |-> 30, prerequisites |-> {1}],
          [duration_days |-> 30, prerequisites |-> {2, 3}],
          [duration_days |-> 30, prerequisites |-> {2, 3}],
          [duration_days |-> 30, prerequisites |-> {4, 5}] >>,
       << [duration_days |-> 30, prerequisites |-> {}],
          [duration_days |-> 30, prerequisites |-> {1}],
          [duration_days |-> 45, prerequisites |-> {1, 2}],
          [duration_days |-> 30, prerequisites |-> {1}],
          [duration_days |-> 30, prerequisites |-> {2, 3}],
          [duration_days |-> 30, prerequisites |-> {3, 4, 5}] >>,
       << [duration_days |-> 28, prerequisites |-> {}],
          [duration_days |-> 28, prerequisites |-> {}],
          [duration_days |-> 28, prerequisites |-> {}],
          [duration_days |-> 28, prerequisites |-> {}],
          [duration_days |-> 42, prerequisites |-> {}],
          [duration_days |-> 42, prerequisites |-> {}] >>,
       << [duration_days |-> 21, prerequisites |-> {}],
          [duration_days |-> 28, prerequisites |-> {}],
          [duration_days |-> 28, prerequisites |-> {}],
          [duration_days |-> 28, prerequisites |-> {}],
          [duration_days |-> 21, prerequisites |-> {}],
          [duration_days |-> 28, prerequisites |-> {}] >> >>

\* students_data of seed_students, in order, with their progress level.
SeedStudentsData ==
    << [id |-> "u1", progress_level |-> "beginner"],
       [id |-> "u2", progress_level |-> "intermediate"],
       [id |-> "u3", progress_level |-> "advanced"],
       [id |-> "u4", progress_level |-> "expert"],
       [id |-> "u5", progress_level |-> "beginner"] >>

\* create_course and its four siblings: Course.objects.get_or_create(slug).
create_course(i) ==
    /\ courses' = IF \E c \in courses : c.slug = SeedCoursesData[i].slug
                  THEN courses ELSE courses \cup {SeedCoursesData[i]}
    /\ result' = "seeded"
    /\ UNCHANGED <<now, users, phases, phaseTally, lessons, cohorts, enrollments, progress>>

\* create_phases and its siblings, for the course returned by create_course:
\* get_or_create of each phase by (course, phase_number), then
\* phase.prerequisites.add of the phases the data lists, taken from the
\* phases of this call.
create_phases_any_course(i) ==
    /\ \E c \in courses : c.slug = SeedCoursesData[i].slug
    /\ LET course == CHOOSE c \in courses : c.slug = SeedCoursesData[i].slug
           data == SeedPhasesData[i]
           created ==
               phases \cup
               {[id |-> <<course.id, n>>, course |-> course.id, phase_number |-> n,
                 duration_days |-> data[n].duration_days, is_active |-> TRUE,
                 prerequisites |-> {}] :
                  n \in {m \in DOMAIN data :
                            ~\E ph \in phases : ph.course = course.id /\ ph.phase_number = m}}
           PhaseOf(n) == CHOOSE ph \in created : ph.phase_number = n
           after ==
               {IF ph.course = course.id /\ ph.phase_number \in DOMAIN data
                THEN [ph EXCEPT !.prerequisites =
                         @ \cup {PhaseOf(m).id : m \in data[ph.phase_number].prerequisites}]
                ELSE ph : ph \in created}
       IN  /\ phases' = after
           /\ phaseTally' = TallyOf(after)
    /\ result' = "seeded"
    /\ UNCHANGED <<now, users, courses, lessons, cohorts, enrollments, progress>>
create_phases(i) ==
    /\ \E c \in courses : c.slug = SeedCoursesData[i].slug
    /\ LET course == CHOOSE c \in courses : c.slug = SeedCoursesData[i].slug
           data == SeedPhasesData[i]
           created ==
               phases \cup
               {[id |-> <<course.id, n>>, course |-> course.id, phase_number |-> n,
                 duration_days |-> data[n].duration_days, is_active |-> TRUE,
                 prerequisites |-> {}] :
                  n \in {m \in DOMAIN data :
                            ~\E ph \in phases : ph.course = course.id /\ ph.phase_number = m}}
           PhaseOf(n) == CHOOSE ph \in created : ph.course = course.id /\ ph.phase_number = n
           after ==
               {IF ph.course = course.id /\ ph.phase_number \in DOMAIN data
                THEN [ph EXCEPT !.prerequisites =
                         @ \cup {PhaseOf(m).id : m \in data[ph.phase_number].prerequisites}]
                ELSE ph : ph \in created}
       IN  /\ phases' = after
           /\ phaseTally' = TallyOf(after)
    /\ result' = "seeded"
    /\ UNCHANGED <<now, users, courses, lessons, cohorts, enrollments, progress>>

\* create_lessons and its siblings: Lesson.objects.get_or_create(phase,
\* day_number) for the days of lessons_data: seven published lessons per phase
\* with a knowledge check every third day in the first three courses, three
\* lessons per phase with the model defaults (unpublished, no knowledge check)
\* in the last two.
create_lessons(i) ==
    /\ LET cid == (CHOOSE c \in courses : c.slug = SeedCoursesData[i].slug).id
           days == IF i <= 3 THEN 1..7 ELSE 1..3
       IN  lessons' = lessons \cup
               {[id |-> <<ph.id, day>>, phase |-> ph.id, day_number |-> day,
                 is_published |-> (i <= 3),
                 has_knowledge_check |-> (i <= 3 /\ day % 3 = 0)] :
                  <<ph, day>> \in
                     {x \in {q \in phases : q.course = cid /\ q.phase_number \in 1..6} \X days :
                         ~\E ls \in lessons : ls.phase = x[1].id /\ ls.day_number = x[2]}}
    /\ result' = "seeded"
    /\ UNCHANGED <<now, users, courses, phases, phaseTally, cohorts, enrollments, progress>>

\* create_cohort: Cohort.objects.get_or_create(course, name) with defaults
\* upcoming, 50 students, starting in 30 days.  Each course has one cohort
\* name, so the lookup is by course here.
create_cohort_update(i) ==
    /\ LET cid == (CHOOSE c \in courses : c.slug = SeedCoursesData[i].slug).id
           row == [id |-> <<cid>>, course |-> cid, status |-> "upcoming",
                   max_students |-> 50, start_date |-> now + 30]
       IN  cohorts' = {k \in cohorts : k.course # cid} \cup {row}
    /\ result' = "seeded"
    /\ UNCHANGED <<now, users, courses, phases, phaseTally, lessons, enrollments, progress>>
create_cohort(i) ==
    /\ LET cid == (CHOOSE c \in courses : c.slug = SeedCoursesData[i].slug).id
           row == [id |-> <<cid>>, course |-> cid, status |-> "upcoming",
                   max_students |-> 50, start_date |-> now + 30]
       IN  cohorts' = IF \E k \in cohorts : k.course = cid
                      THEN cohorts ELSE cohorts \cup {row}
    /\ result' = "seeded"
    /\ UNCHANGED <<now, users, courses, phases, phaseTally, lessons, enrollments, progress>>

\* Command.handle of seed_curriculum without --clear, one statement at a
\* time: for each of the five courses create_course, create_phases,
\* create_lessons and create_cohort.
SeedCurriculumStep(p) ==
    /\ pc[p].at \in {"idle", "seed_curriculum"}
    /\ LET s == pc[p].step + 1
           i == ((s - 1) \div 4) + 1
           call == (s - 1) % 4
       IN  /\ CASE call = 0 -> create_course(i)
                [] call = 1 -> create_phases(i)
                [] call = 2 -> create_lessons(i)
                [] OTHER -> create_cohort(i)
           /\ pc' = [pc EXCEPT ![p] =
                        IF s = 4 * Len(SeedCoursesData)
                        THEN [NoRequest EXCEPT !.at = "seeded"]
                        ELSE [NoRequest EXCEPT !.at = "seed_curriculum", !.step = s]]

\* set_student_progress(student, course, progress_level), on the enrollments
\* enr that handle has just made sure of.  The level names the index of the
\* current phase among the course's phases by phase_number and how many of
\* its published lessons, by day_number, are completed; the phases before it
\* are completed in full.  Indexing past the end of a query raises
\* IndexError, before anything is written; the enrollment is fetched with
\* get() after the progress rows are created.
set_student_progress(enr, u, cid, level, daysAgo, rnd) ==
    LET k == CASE level = "beginner" -> 0 [] level = "intermediate" -> 0
               [] level = "advanced" -> 1 [] OTHER -> 2
        n == CASE level = "beginner" -> 2 [] level = "intermediate" -> 4
               [] level = "advanced" -> 2 [] OTHER -> 4
        PhaseRank(ph) ==
            Cardinality({q \in PhasesOf(cid) : q.phase_number < ph.phase_number})
        Published(ph) == {ls \in lessons : ls.phase = ph.id /\ ls.is_published}
        LessonRank(ls) ==
            Cardinality({m \in lessons : m.phase = ls.phase /\ m.is_published
                                          /\ m.day_number < ls.day_number})
        current == {ph \in PhasesOf(cid) : PhaseRank(ph) = k}
        failed == [progress |-> progress, enrollments |-> enr, result |-> "IndexError"]
    IN  IF current = {} THEN failed
        ELSE
        LET current_phase == CHOOSE ph \in current : TRUE
            done == UNION {Published(ph) : ph \in {q \in PhasesOf(cid) : PhaseRank(q) < k}}
                    \cup {ls \in Published(current_phase) : LessonRank(ls) < n}
            more == Cardinality({ls \in lessons : ls.phase = current_phase.id}) > n
            next == {ls \in Published(current_phase) : LessonRank(ls) = n}
            rows == progress \cup
                    {StudentProgressSave(
                        [user |-> u, lesson |-> ls.id, is_completed |-> TRUE,
                         completion_date |-> Some(now - daysAgo),
                         knowledge_check_score |->
                             IF ls.has_knowledge_check THEN Some(rnd) ELSE None,
                         updated_at |-> now]) :
                       ls \in {x \in done : ProgressOf(u, x.id) = {}}}
            mine == {e \in enr : e.user = u /\
                        \E c \in cohorts : c.id = e.cohort /\ c.course = cid}
        IN  IF more /\ next = {} THEN failed
            ELSE IF Cardinality(mine) # 1
            THEN [progress |-> rows, enrollments |-> enr, result |-> "DoesNotExist"]
            ELSE [progress |-> rows,
                  enrollments |->
                      {IF e \in mine
                       THEN EnrollmentSave(
                               [e EXCEPT !.current_phase = Some(current_phase.id),
                                         !.current_lesson =
                                             IF more THEN {ls.id : ls \in next} ELSE None],
                               FALSE)
                       ELSE e : e \in enr},
                  result |-> "seeded"]

\* Command.handle of seed_students without --clear, one student of
\* students_data at a time: the course and its first cohort are looked up
\* ("Please run seed_curriculum first" when missing), then User and
\* StudentEnrollment get_or_create and set_student_progress, with two joint
\* draws of random.randint(1, 30) and random.uniform(70, 95).  An exception
\* ends the command.
SeedStudentsStep(p) ==
    /\ pc[p].at \in {"seeded", "seed_students"}
    /\ LET s == pc[p].step + 1
           st == SeedStudentsData[s]
           found == {c \in courses : c.slug = SeedCoursesData[1].slug}
           theirs == {k \in cohorts : \E c \in found : k.course = c.id}
       IN  IF theirs = {}
           THEN /\ result' = "NotSeeded"
                /\ pc' = [pc EXCEPT ![p] = [NoRequest EXCEPT !.at = "done"]]
                /\ UNCHANGED <<users, enrollments, progress>>
           ELSE \E draw \in {<<1, 70>>, <<2, 95>>} :
                LET daysAgo == draw[1]
                    rnd == draw[2]
                    course == CHOOSE c \in found : TRUE
                    cohort == CHOOSE k \in theirs :
                                 \A other \in theirs : other.start_date <= k.start_date
                    accounts == IF \E a \in users : a.email = StudentEmail(st.id)
                                THEN users ELSE users \cup {SeededStudent(st.id)}
                    student == CHOOSE a \in accounts : a.email = StudentEmail(st.id)
                    enr == IF EnrollmentOf(student.id, cohort.id) # {}
                           THEN enrollments
                           ELSE enrollments \cup
                                {NewEnrollment(student.id, cohort.id, Some(SeedEnrollmentStatus))}
                    out == set_student_progress(enr, student.id, course.id,
                                                st.progress_level, daysAgo, rnd)
                IN  /\ users' = accounts
                    /\ enrollments' = out.enrollments
                    /\ progress' = out.progress
                    /\ result' = out.result
                    /\ pc' = [pc EXCEPT ![p] =
                                 IF out.result = "seeded" /\ s < Len(SeedStudentsData)
                                 THEN [NoRequest EXCEPT !.at = "seed_students", !.step = s]
                                 ELSE [NoRequest EXCEPT !.at = "done", !.step = s]]
    /\ UNCHANGED <<now, courses, phases, phaseTally, lessons, cohorts>>

(***************************************************************************)
(* Specification of seeding: from an empty store, seed_curriculum and then *)
(* seed_students are run to the end, and then both are run again; the      *)
(* clock advances before, between and after the two runs.                  *)
(***************************************************************************)
NextSeed ==
    \/ /\ \A p \in Procs : pc[p].at \in {"idle", "done"}
       /\ Tick
    \/ SeedCurriculumStep("r1")
    \/ SeedStudentsStep("r1")
    \/ /\ pc["r1"].at = "done"
       /\ SeedCurriculumStep("r2")
    \/ /\ pc["r1"].at = "done"
       /\ SeedStudentsStep("r2")

SpecSeed == InitAccounts /\ [][NextSeed]_vars

\* C28: running seed_curriculum and then seed_students a second time without
\* --clear leaves the same Courses, Phases with their prerequisite edges,
\* Lessons, Cohorts, Accounts, Enrollments and Progress rows as the first run.
C28_SeedingIdempotent ==
    [][pc["r1"].at = "done" =>
          UNCHANGED <<courses, phases, lessons, cohorts, users, enrollments, progress>>]_vars

\* C28 witness: the second run has ended, at a later time than the first
\* enrolled the students, on the fully seeded store.
C28_Witness ==
    /\ pc["r1"].at = "done" /\ pc["r2"].at = "done"
    /\ result = "seeded"
    /\ Cardinality(courses) = 5 /\ Cardinality(phases) = 30
    /\ Cardinality(cohorts) = 5 /\ Cardinality(users) = 5
    /\ Cardinality(enrollments) = 5
    /\ \A e \in enrollments : e.enrollment_date < now /\ e.current_lesson # None
    /\ \E r \in progress : r.knowledge_check_score # None

\* C29: every prerequisite edge written by seed_curriculum goes from a phase
\* to a phase of the same course with a strictly lower phase_number, so from
\* an empty store the seeded prerequisite graph is acyclic and stays within
\* each course.
C29_SeededEdgesPointBack ==
    \A ph \in phases : \A q \in ph.prerequisites :
        \E pre \in phases :
            /\ pre.id = q
            /\ pre.course = ph.course
            /\ pre.phase_number < ph.phase_number

\* C29 witness: all thirty phases are seeded with their edges, the sixth phase
\* of the third course having three prerequisites.
C29_Witness ==
    /\ Cardinality(phases) = 30
    /\ \E ph \in phases : ph.phase_number = 6 /\ Cardinality(ph.prerequisites) = 3
    /\ Cardinality({ph \in phases : ph.prerequisites # {}}) = 15


(***************************************************************************)
(* Specification of the progress levels: seed_curriculum has been run on a *)
(* store holding the bootcamp course with three phases, three lessons in   *)
(* each of the first two, and a cohort; lessons are then published,        *)
(* unpublished and deleted in the admin, and seed_students is run.         *)
(***************************************************************************)
InitLevels ==
    /\ now = 0
    /\ courses = {[id |-> "c1", slug |-> SeedCoursesData[1].slug, price_per_phase |-> 3000]}
    /\ phases = {[id |-> "p1", course |-> "c1", phase_number |-> 1,
                  duration_days |-> 30, is_active |-> TRUE, prerequisites |-> {}],
                 [id |-> "p2", course |-> "c1", phase_number |-> 2,
                  duration_days |-> 30, is_active |-> TRUE, prerequisites |-> {"p1"}],
                 [id |-> "p3", course |-> "c1", phase_number |-> 3,
                  duration_days |-> 30, is_active |-> TRUE, prerequisites |-> {"p1"}]}
    /\ lessons = {[id |-> <<ph, day>>, phase |-> ph, day_number |-> day,
                   is_published |-> TRUE, has_knowledge_check |-> (day % 3 = 0)] :
                     ph \in {"p1", "p2"}, day \in 1..3}
    /\ cohorts = {[id |-> "k1", course |-> "c1", status |-> "upcoming",
                   max_students |-> 50, start_date |-> 30]}
    /\ enrollments = {}
    /\ progress = {}
    /\ phaseTally = TallyOf(phases)
    /\ users = {}
    /\ pc = [IdlePc EXCEPT !["r1"] = [NoRequest EXCEPT !.at = "seeded"]]
    /\ result = "none"

NextLevels ==
    \/ /\ pc["r1"].at = "seeded"
       /\ \E ls \in lessons, pub \in BOOLEAN :
             AdminChangeLesson(ls, ls.phase, ls.day_number, ls.has_knowledge_check, pub)
    \/ /\ pc["r1"].at = "seeded"
       /\ \E ls \in lessons : AdminDeleteLesson(ls)
    \/ SeedStudentsStep("r1")

SpecLevels == InitLevels /\ [][NextLevels]_vars

\* C30: whenever the course has the phases a student's progress level needs,
\* set_student_progress completes without error and leaves the enrollment with
\* current_lesson null or a published lesson of current_phase for which the
\* student has no Progress row, the one with the lowest day_number after the
\* lessons marked completed, also when the phase holds unpublished lessons.
C30_CurrentLessonIsNextPublished ==
    [][(pc["r1"].at \in {"seeded", "seed_students"} /\ pc'["r1"] # pc["r1"]) =>
          LET st == SeedStudentsData[pc["r1"].step + 1]
              needs == CASE st.progress_level \in {"beginner", "intermediate"} -> 1
                         [] st.progress_level = "advanced" -> 2
                         [] OTHER -> 3
          IN  Cardinality(PhasesOf("c1")) >= needs =>
                  /\ result' = "seeded"
                  /\ \A e \in enrollments' :
                        e.user = st.id =>
                            \/ e.current_lesson = None
                            \/ \E ls \in lessons :
                                  /\ e.current_lesson = Some(ls.id)
                                  /\ ls.is_published
                                  /\ e.current_phase = Some(ls.phase)
                                  /\ \A r \in progress' :
                                        ~(r.user = st.id /\ r.lesson = ls.id)
                                  /\ \A m \in lessons :
                                        ( /\ m.phase = ls.phase /\ m.is_published
                                          /\ m.day_number < ls.day_number ) =>
                                        \E r \in progress' :
                                            /\ r.user = st.id /\ r.lesson = m.id
                                            /\ r.is_completed
      ]_vars

====
